---- MODULE Spec2Model ----
(***************************************************************************)
(* TerraLend: the green-score rule engine (services/aiScoringService.js),  *)
(* and the verification orchestrator (routes/verification.js) over the     *)
(* loan store, the verification store and the audit log.                   *)
(*                                                                         *)
(* JavaScript values are tagged records: Undefined, Str(s), Num(n).        *)
(* Numbers produced by parseNum are kept in tenths (one decimal digit), so *)
(* that "2.5" and "0.5" are told apart from 2 and 0.                       *)
(***************************************************************************)
EXTENDS Integers, Sequences, FiniteSets, TLC

(***************************************************************************)
(* JavaScript values and strings                                           *)
(***************************************************************************)
Undefined == [t |-> "undefined"]
Str(s) == [t |-> "string", s |-> s]
Num(n) == [t |-> "number", n |-> n]

IsUndefined(v) == v.t = "undefined"
IsStr(v) == v.t = "string"
IsNum(v) == v.t = "number"

CharAt(s, i) == SubSeq(s, i, i)

DigitChars == {"0", "1", "2", "3", "4", "5", "6", "7", "8", "9"}

DigitVal(c) ==
    CASE c = "0" -> 0 [] c = "1" -> 1 [] c = "2" -> 2 [] c = "3" -> 3
      [] c = "4" -> 4 [] c = "5" -> 5 [] c = "6" -> 6 [] c = "7" -> 7
      [] c = "8" -> 8 [] c = "9" -> 9

DigitChar(d) ==
    CASE d = 0 -> "0" [] d = 1 -> "1" [] d = 2 -> "2" [] d = 3 -> "3"
      [] d = 4 -> "4" [] d = 5 -> "5" [] d = 6 -> "6" [] d = 7 -> "7"
      [] d = 8 -> "8" [] d = 9 -> "9"

UpperToLower ==
    "A" :> "a" @@ "B" :> "b" @@ "C" :> "c" @@ "D" :> "d" @@ "E" :> "e" @@
    "F" :> "f" @@ "G" :> "g" @@ "H" :> "h" @@ "I" :> "i" @@ "J" :> "j" @@
    "K" :> "k" @@ "L" :> "l" @@ "M" :> "m" @@ "N" :> "n" @@ "O" :> "o" @@
    "P" :> "p" @@ "Q" :> "q" @@ "R" :> "r" @@ "S" :> "s" @@ "T" :> "t" @@
    "U" :> "u" @@ "V" :> "v" @@ "W" :> "w" @@ "X" :> "x" @@ "Y" :> "y" @@
    "Z" :> "z"

\* Op applied to the value of v, which is evaluated once
Bind(v, Op(_)) == CHOOSE r \in {Op(x) : x \in {v}} : TRUE

\* String.prototype.toLowerCase
LowerCaseOf(s) ==
    LET F[i \in 0..Len(s)] ==
            IF i = 0 THEN ""
            ELSE F[i - 1] \o (IF CharAt(s, i) \in DOMAIN UpperToLower
                              THEN UpperToLower[CharAt(s, i)] ELSE CharAt(s, i))
    IN  F[Len(s)]

ToLowerCase(str) == Bind(str, LowerCaseOf)

\* String.prototype.includes, for a non-empty needle
Includes(str, sub) ==
    \E s \in {str} :
        \E i \in 1..(Len(s) - Len(sub) + 1) : SubSeq(s, i, i + Len(sub) - 1) = sub

\* list.some(s => text.includes(s))
SomeIncluded(list, text) ==
    \E t \in {text} : \E k \in 1..Len(list) : Includes(t, list[k])

\* str.replace(/ /g, '_')
UnderscoredOf(s) ==
    LET F[i \in 0..Len(s)] ==
            IF i = 0 THEN ""
            ELSE F[i - 1] \o (IF CharAt(s, i) = " " THEN "_" ELSE CharAt(s, i))
    IN  F[Len(s)]

SpacesToUnderscores(str) == Bind(str, UnderscoredOf)

\* str.replace(/[^0-9.]/g, '')
NumericOf(s) ==
    LET F[i \in 0..Len(s)] ==
            IF i = 0 THEN ""
            ELSE F[i - 1] \o (IF CharAt(s, i) \in DigitChars \cup {"."} THEN CharAt(s, i) ELSE "")
    IN  F[Len(s)]

KeepNumeric(str) == Bind(str, NumericOf)

\* String(n) for an integer n
RECURSIVE NatToString(_)
NatToString(n) ==
    IF n < 10 THEN DigitChar(n) ELSE NatToString(n \div 10) \o DigitChar(n % 10)

\* String(val)
ToJsString(v) ==
    CASE IsUndefined(v) -> "undefined"
      [] IsStr(v) -> v.s
      [] IsNum(v) -> IF v.n < 0 THEN "-" \o NatToString(0 - v.n) ELSE NatToString(v.n)

\* the length of the run of digits of s that starts at position i
DigitRun(s, i) ==
    LET F[j \in i..(Len(s) + 1)] ==
            IF j > Len(s) \/ CharAt(s, j) \notin DigitChars THEN 0
            ELSE 1 + F[j + 1]
    IN  F[i]

\* the value of the digits s[i .. i+n-1]
DigitsValue(s, i, n) ==
    LET F[k \in 0..n] ==
            IF k = 0 THEN 0 ELSE 10 * F[k - 1] + DigitVal(CharAt(s, i + k - 1))
    IN  F[n]

\* parseFloat on a string of digits and dots: digits [. digits] | . digits,
\* NaN otherwise. The value is in tenths; the first decimal digit is kept.
FloatOf(s) ==
    \* ni, nf: the lengths of the integer digits and of the decimals
    LET Parts(ni) ==
            LET nf == IF ni < Len(s) /\ CharAt(s, ni + 1) = "."
                      THEN DigitRun(s, ni + 2) ELSE 0
            IN  IF ni = 0 /\ nf = 0 THEN [nan |-> TRUE, v |-> 0]
                ELSE [nan |-> FALSE,
                      v |-> 10 * DigitsValue(s, 1, ni)
                            + (IF nf > 0 THEN DigitVal(CharAt(s, ni + 2)) ELSE 0)]
    IN  Bind(DigitRun(s, 1), Parts)

ParseFloat(str) == Bind(str, FloatOf)

\* x || dflt for a parseFloat result: NaN and 0 are falsy
OrDefault(p, dflt) == IF p.nan \/ p.v = 0 THEN dflt ELSE p.v

\* const parseNum = (val) => parseFloat(String(val).replace(/[^0-9.]/g, '')) || 0;
parseNum(val) ==
    Bind(ParseFloat(KeepNumeric(ToJsString(val))), LAMBDA f : OrDefault(f, 0))

\* x || dflt for a string-or-undefined value
StrOr(v, dflt) == IF IsStr(v) /\ v.s # "" THEN v.s ELSE dflt

Min(a, b) == IF a <= b THEN a ELSE b
Max(a, b) == IF a >= b THEN a ELSE b


(***************************************************************************)
(* JavaScript numbers: NaN is kept as the sentinel below; every other      *)
(* number of the rule engine is a non-negative integer.                    *)
(***************************************************************************)
NaN == 0 - 1

IsNaN(a) == a = NaN
JsAdd(a, b) == IF IsNaN(a) \/ IsNaN(b) THEN NaN ELSE a + b
\* Math.min / Math.max
MathMin(a, b) == IF IsNaN(a) \/ IsNaN(b) THEN NaN ELSE Min(a, b)
MathMax(a, b) == IF IsNaN(a) \/ IsNaN(b) THEN NaN ELSE Max(a, b)
\* a >= b and a < b: every comparison with NaN is false
JsGe(a, b) == ~IsNaN(a) /\ ~IsNaN(b) /\ a >= b
JsLt(a, b) == ~IsNaN(a) /\ ~IsNaN(b) /\ a < b

Null == [t |-> "null"]

\* a value is truthy
Truthy(v) ==
    CASE IsUndefined(v) -> FALSE
      [] v.t = "null" -> FALSE
      [] IsStr(v) -> v.s # ""
      [] IsNum(v) -> v.n # 0
      [] OTHER -> TRUE

\* obj?.name, for name in {latitude, longitude}
Latitude(c) == IF c.t = "object" THEN c.latitude ELSE Undefined
Longitude(c) == IF c.t = "object" THEN c.longitude ELSE Undefined

(***************************************************************************)
(* assessClimateRisk(location), location = [city, state]                   *)
(***************************************************************************)
DroughtRegions == <<"maharashtra", "karnataka", "rajasthan", "telangana">>
FloodRegions == <<"mumbai", "chennai", "kolkata", "assam", "kerala">>
HeatRegions == <<"delhi", "uttar pradesh", "bihar", "punjab">>

\* (location.city || location.state || '').toLowerCase()
locationStr(location) ==
    ToLowerCase(IF location.city # "" THEN location.city ELSE location.state)

climateRisksOf(str) ==
        (IF SomeIncluded(DroughtRegions, str)
            THEN <<[type |-> "drought", level |-> "medium"]>> ELSE <<>>)
        \o (IF SomeIncluded(FloodRegions, str)
            THEN <<[type |-> "flood", level |-> "high"]>> ELSE <<>>)
        \o (IF SomeIncluded(HeatRegions, str)
            THEN <<[type |-> "heatwave", level |-> "medium"]>> ELSE <<>>)

climateRisks(location) == Bind(locationStr(location), climateRisksOf)

overallLevel(risks) ==
    IF \E k \in 1..Len(risks) : risks[k].level = "high" THEN "high"
    ELSE IF \E k \in 1..Len(risks) : risks[k].level = "medium" THEN "medium"
    ELSE "low"

assessClimateRisk(location, now) ==
    Bind(climateRisks(location),
         LAMBDA risks : [level |-> overallLevel(risks),
                         risks |-> risks,
                         notes |-> Len(risks),
                         assessedAt |-> now])

(***************************************************************************)
(* runGreenwashingCheck(projectData)                                       *)
(***************************************************************************)
greenwashingChecks ==
    << [name |-> "MNRE Registration", status |-> "verified", confidence |-> 95],
       [name |-> "BEE Compliance", status |-> "verified", confidence |-> 92],
       [name |-> "GRI Standards", status |-> "verified", confidence |-> 88],
       [name |-> "Project Documentation", status |-> "verified", confidence |-> 90] >>

RECURSIVE SumConfidence(_, _)
SumConfidence(checks, k) ==
    IF k = 0 THEN 0 ELSE SumConfidence(checks, k - 1) + checks[k].confidence

\* Math.round(sum / n) for non-negative sum
RoundDiv(sum, n) == (2 * sum + n) \div (2 * n)

\* a faulty check: a loan without a green objective does not pass
runGreenwashingCheckByLoan(projectData, now) ==
    LET checks == greenwashingChecks
        sum == SumConfidence(checks, Len(checks))
    IN  [passed |-> Truthy(projectData.greenObjective)
                    /\ sum >= 80 * Len(checks),
         confidenceScore |-> RoundDiv(sum, Len(checks)),
         checks |-> checks,
         flags |-> <<>>,
         verifiedAt |-> now]

runGreenwashingCheck(projectData, now) ==
    LET checks == greenwashingChecks
        sum == SumConfidence(checks, Len(checks))
    IN  [passed |-> (\A k \in 1..Len(checks) : checks[k].status = "verified")
                    /\ sum >= 80 * Len(checks),
         confidenceScore |-> RoundDiv(sum, Len(checks)),
         checks |-> checks,
         flags |-> <<>>,
         verifiedAt |-> now]

(***************************************************************************)
(* getStateFromCoordinates(lat, long); coordinates in hundredths of a      *)
(* degree, as are the centroids of the table.                              *)
(***************************************************************************)
stateCentroids ==
    << [state |-> "Maharashtra", lat |-> 1975, long |-> 7571],
       [state |-> "Karnataka", lat |-> 1531, long |-> 7571],
       [state |-> "Rajasthan", lat |-> 2702, long |-> 7421],
       [state |-> "Tamil Nadu", lat |-> 1112, long |-> 7865],
       [state |-> "Gujarat", lat |-> 2225, long |-> 7119],
       [state |-> "Assam", lat |-> 2620, long |-> 9293],
       [state |-> "Delhi", lat |-> 2870, long |-> 7710],
       [state |-> "Telangana", lat |-> 1811, long |-> 7901] >>

\* the square of dist; Math.sqrt is monotone
DistSq(loc, lat, long) ==
    (loc.lat - lat) * (loc.lat - lat) + (loc.long - long) * (loc.long - long)

\* locations.forEach with "dist < minDist": the nearest entry, the earliest
\* one on a tie
NearestIndex(lat, long) ==
    CHOOSE k \in 1..Len(stateCentroids) :
        /\ \A j \in 1..(k - 1) :
              DistSq(stateCentroids[j], lat, long) > DistSq(stateCentroids[k], lat, long)
        /\ \A j \in (k + 1)..Len(stateCentroids) :
              DistSq(stateCentroids[j], lat, long) >= DistSq(stateCentroids[k], lat, long)

getStateFromCoordinates(lat, long) ==
    IF ~Truthy(lat) \/ ~Truthy(long) THEN "Unknown"
    ELSE stateCentroids[NearestIndex(lat.n, long.n)].state

(***************************************************************************)
(* calculateGreenScore(projectData)                                        *)
(* Amounts (turnoverVal, savingsVal, loanVal, yearsVal) are in tenths.     *)
(***************************************************************************)
impactScores ==
    [solar |-> 30, waste |-> 30, wind |-> 30, energy_efficiency |-> 25,
     ev |-> 25, water |-> 25, agriculture |-> 20]

\* the all-lower-case property names an object literal inherits from
\* Object.prototype: impactScores[key] is then a function or an object
ObjectPrototypeKeys == {"constructor", "__proto__"}

\* parseNum(loanAmount) || 100000
loanValOf(parsed) == IF parsed = 0 THEN 10 * 100000 ELSE parsed

\* locationCoordinates?.latitude && locationCoordinates?.longitude
hasCoordinates(p) ==
    Truthy(Latitude(p.locationCoordinates)) /\ Truthy(Longitude(p.locationCoordinates))

\* the state is taken from the coordinates and not from projectLocation
stateFromCoordinates(p) ==
    /\ hasCoordinates(p)
    /\ getStateFromCoordinates(Latitude(p.locationCoordinates),
                               Longitude(p.locationCoordinates)) # "Unknown"

\* a faulty parse: a numeric field whose text holds no digit raises
GarbageNumber(v) == IsStr(v) /\ NumericOf(v.s) = ""

ScoreThrowsOnGarbage(p) ==
    \/ Truthy(p.greenObjective) /\ ~IsStr(p.greenObjective)
    \/ Truthy(p.projectLocation) /\ ~IsStr(p.projectLocation)
          /\ ~stateFromCoordinates(p)
    \/ GarbageNumber(p.annualTurnover) \/ GarbageNumber(p.yearsInBusiness)

\* (greenObjective || '').toLowerCase() throws when greenObjective is truthy
\* and not a string; so does state.toLowerCase() when the state is a
\* projectLocation that is truthy and not a string
ScoreThrows(p) ==
    \/ Truthy(p.greenObjective) /\ ~IsStr(p.greenObjective)
    \/ Truthy(p.projectLocation) /\ ~IsStr(p.projectLocation)
          /\ ~stateFromCoordinates(p)

\* Derive State
derivedState(p) ==
    ToLowerCase(
        IF hasCoordinates(p)
           /\ getStateFromCoordinates(Latitude(p.locationCoordinates),
                                      Longitude(p.locationCoordinates)) # "Unknown"
        THEN getStateFromCoordinates(Latitude(p.locationCoordinates),
                                     Longitude(p.locationCoordinates))
        ELSE StrOr(p.projectLocation, "Unknown"))

\* the constants the function computes from projectData before it scores
locals(p) ==
    [greenObjective |-> p.greenObjective,
     turnoverVal |-> parseNum(p.annualTurnover),
     savingsVal |-> parseNum(p.estimatedSavings),
     loanVal |-> loanValOf(parseNum(p.loanAmount)),
     yearsVal |-> parseNum(p.yearsInBusiness),
     catKey |-> SpacesToUnderscores(ToLowerCase(StrOr(p.greenObjective, ""))),
     category |-> ToLowerCase(StrOr(p.greenObjective, "")),
     state |-> derivedState(p),
     hasLatitude |-> Truthy(Latitude(p.locationCoordinates))]

\* a faulty default: a category outside the table earns nothing
baseImpactNoDefault(c) ==
    IF c.catKey \in DOMAIN impactScores THEN impactScores[c.catKey]
    ELSE IF c.catKey \in ObjectPrototypeKeys THEN NaN
    ELSE 0

\* impactScores[catKey] || 20; an inherited property is truthy and no number
baseImpact(c) ==
    IF c.catKey \in DOMAIN impactScores THEN impactScores[c.catKey]
    ELSE IF c.catKey \in ObjectPrototypeKeys THEN NaN
    ELSE 20

\* a faulty bonus: granted without a turnover
transformativeBonusUnguarded(c) == 2 * c.savingsVal > c.turnoverVal

transformativeBonus(c) == c.turnoverVal > 0 /\ 2 * c.savingsVal > c.turnoverVal

\* 1. PROJECT IMPACT & CATEGORY
impactScore(c) ==
    MathMin(30, JsAdd(baseImpact(c), IF transformativeBonus(c) THEN 5 ELSE 0))

impactReasoning(c) ==
    <<[key |-> "category_impact", pts |-> baseImpact(c),
       msg |-> StrOr(c.greenObjective, "Standard") \o " Category"]>>
    \o (IF transformativeBonus(c)
        THEN <<[key |-> "transformative_bonus", pts |-> 5,
                msg |-> "High Savings relative to Turnover"]>>
        ELSE <<>>)

\* roiRatio = savingsVal / loanVal, compared with 0.5, 0.25 and 0.1
roiPoints(c) ==
    IF 2 * c.savingsVal >= c.loanVal THEN 15
    ELSE IF 4 * c.savingsVal >= c.loanVal THEN 10
    ELSE IF 10 * c.savingsVal >= c.loanVal THEN 5
    ELSE 0

turnoverPoints(c) ==
    IF c.turnoverVal >= 10 * 5000000 THEN 10
    ELSE IF c.turnoverVal >= 10 * 1000000 THEN 5
    ELSE 0

agePoints(c) ==
    IF c.yearsVal >= 10 * 3 THEN 5
    ELSE IF c.yearsVal >= 10 * 1 THEN 2
    ELSE 0

\* 2. FINANCIAL VIABILITY
financialScore(c) == Min(30, roiPoints(c) + turnoverPoints(c) + agePoints(c))

financialReasoning(c) ==
    <<[key |-> "roi_potential", pts |-> roiPoints(c),
       msg |-> CASE roiPoints(c) = 15 -> "Excellent ROI > 50%"
                 [] roiPoints(c) = 10 -> "Strong ROI > 25%"
                 [] roiPoints(c) = 5 -> "Moderate ROI"
                 [] OTHER -> "Low ROI < 10%"],
      [key |-> "turnover_stability", pts |-> turnoverPoints(c),
       msg |-> CASE turnoverPoints(c) = 10 -> "Turnover > 50L"
                 [] turnoverPoints(c) = 5 -> "Turnover > 10L"
                 [] OTHER -> "Low Turnover"]>>
    \o (IF agePoints(c) > 0
        THEN <<[key |-> "business_age", pts |-> agePoints(c),
                msg |-> IF agePoints(c) = 5 THEN "> 3 Years Vintage"
                        ELSE "1-3 Years Vintage"]>>
        ELSE <<>>)

\* A. Suitability Rules: [pts, msg]
geoSuitability(c) ==
    IF Includes(c.category, "solar") THEN
        IF SomeIncluded(<<"rajasthan", "gujarat", "maharashtra", "karnataka",
                          "tamil nadu", "telangana", "andhra pradesh">>, c.state)
        THEN [pts |-> 20, msg |-> "High Solar Irradiance Zone"]
        ELSE IF SomeIncluded(<<"kerala", "west bengal", "odisha">>, c.state)
        THEN [pts |-> 10, msg |-> "Moderate Solar Potential"]
        ELSE [pts |-> 5, msg |-> "Standard Solar Potential"]
    ELSE IF Includes(c.category, "wind") THEN
        IF SomeIncluded(<<"tamil nadu", "gujarat", "maharashtra", "karnataka">>, c.state)
        THEN [pts |-> 20, msg |-> "High Wind Corridor"]
        ELSE [pts |-> 5, msg |-> "Low Wind Potential"]
    ELSE IF Includes(c.category, "ev") \/ Includes(c.category, "efficiency") THEN
        IF SomeIncluded(<<"delhi", "maharashtra", "karnataka", "telangana",
                          "tamil nadu">>, c.state)
        THEN [pts |-> 20, msg |-> "High Urban Adoption Rate"]
        ELSE [pts |-> 10, msg |-> "Growing Adoption Zone"]
    ELSE IF Includes(c.category, "agriculture") \/ Includes(c.category, "water") THEN
        IF SomeIncluded(<<"punjab", "haryana", "uttar pradesh", "madhya pradesh">>, c.state)
        THEN [pts |-> 20, msg |-> "Process Optimization Zone"]
        ELSE IF SomeIncluded(<<"rajasthan", "maharashtra", "gujarat">>, c.state)
        THEN [pts |-> 20, msg |-> "Critical Resource Impact Zone"]
        ELSE [pts |-> 10, msg |-> "Standard Impact Zone"]
    ELSE IF Includes(c.category, "waste") THEN
        [pts |-> 20, msg |-> "Universal Need"]
    ELSE [pts |-> 10, msg |-> "General Applicability"]

\* B. Climate Risk Resilience: assessClimateRisk({ state })
\* a faulty inversion: only a low risk earns points
resiliencePointsLowOnly(level) == IF level = "low" THEN 10 ELSE 0

resiliencePointsOf(level) ==
    IF level = "low" THEN 10 ELSE IF level = "medium" THEN 5 ELSE 0

resiliencePoints(c) ==
    resiliencePointsOf(assessClimateRisk([city |-> "", state |-> c.state], 0).level)

\* 3. GEOGRAPHICAL SUITABILITY
geoScore(c) == Min(30, geoSuitability(c).pts + resiliencePoints(c))

geoReasoning(c) ==
    Bind(<<geoSuitability(c), resiliencePoints(c)>>,
         LAMBDA g :
            <<[key |-> "geo_suitability", pts |-> g[1].pts, msg |-> g[1].msg],
              [key |-> "climate_resilience", pts |-> g[2],
               msg |-> CASE g[2] = 10 -> "Low Climate Risk"
                         [] g[2] = 5 -> "Moderate Climate Risk"
                         [] OTHER -> "High Climate Risk detected"]>>)

fullDisclosure(c) == c.turnoverVal > 0 /\ c.savingsVal > 0

\* 4. DATA INTEGRITY & VALIDATION
dataScore(c) ==
    (IF c.hasLatitude THEN 5 ELSE 0) + (IF fullDisclosure(c) THEN 5 ELSE 0)

dataReasoning(c) ==
    (IF c.hasLatitude
        THEN <<[key |-> "data_quality", pts |-> 5, msg |-> "Precise Geolocation Verified"]>>
        ELSE <<>>)
    \o (IF fullDisclosure(c)
        THEN <<[key |-> "data_completeness", pts |-> 5, msg |-> "Full Financial Disclosure"]>>
        ELSE <<>>)

\* Determine Class
sustainabilityClassOf(finalScore) ==
    IF JsGe(finalScore, 80) THEN "high"
    ELSE IF JsGe(finalScore, 50) THEN "medium"
    ELSE "low"

\* finalScore += impactScore; += financialScore; += geoScore; += dataScore
rawScore(c) ==
    JsAdd(JsAdd(JsAdd(impactScore(c), financialScore(c)), geoScore(c)), dataScore(c))

\* Math.min(100, Math.max(0, Math.round(finalScore))); the sum is an integer or NaN
clampScore(score) == MathMin(100, MathMax(0, score))

\* a faulty result: the version tag carries the time of the call
scoreOfStamped(c, now) ==
    Bind(clampScore(rawScore(c)),
         LAMBDA finalScore :
            [threw |-> FALSE,
             greenScore |-> finalScore,
             sustainabilityClass |-> sustainabilityClassOf(finalScore),
             reasoning |-> impactReasoning(c) \o financialReasoning(c)
                           \o geoReasoning(c) \o dataReasoning(c),
             timestamp |-> now,
             methodology |-> "TerraLend Enhanced AI v2.0 " \o NatToString(now)])

scoreOf(c, now) ==
    Bind(clampScore(rawScore(c)),
         LAMBDA finalScore :
            [threw |-> FALSE,
             greenScore |-> finalScore,
             sustainabilityClass |-> sustainabilityClassOf(finalScore),
             reasoning |-> impactReasoning(c) \o financialReasoning(c)
                           \o geoReasoning(c) \o dataReasoning(c),
             timestamp |-> now,
             methodology |-> "TerraLend Enhanced AI v2.0"])

calculateGreenScore(projectData, now) ==
    IF ScoreThrows(projectData) THEN [threw |-> TRUE]
    ELSE Bind(locals(projectData), LAMBDA c : scoreOf(c, now))

(***************************************************************************)
(* routes/verification.js: the decision of POST /api/verify/green-score    *)
(***************************************************************************)
\* `${scoreResult.greenScore}`
ScoreText(score) == IF IsNaN(score) THEN "NaN" ELSE NatToString(score)

GreenwashingReason ==
    "Greenwashing detected: Sustainability claims could not be verified."

LowScoreReason(score) ==
    "Green Score too low (" \o ScoreText(score) \o "/100). Minimum 50 required."

\* a faulty decision: the score threshold is consulted before the greenwashing outcome
DispositionScoreFirst(passed, greenScore) ==
    IF JsLt(greenScore, 50)
    THEN [newStatus |-> "rejected", rejectionReason |-> Str(LowScoreReason(greenScore))]
    ELSE IF ~passed
    THEN [newStatus |-> "rejected", rejectionReason |-> Str(GreenwashingReason)]
    ELSE [newStatus |-> "approved", rejectionReason |-> Null]

\* a faulty decision: a score of exactly 50 is rejected
DispositionInclusive(passed, greenScore) ==
    IF ~passed
    THEN [newStatus |-> "rejected", rejectionReason |-> Str(GreenwashingReason)]
    ELSE IF JsLt(greenScore, 51)
    THEN [newStatus |-> "rejected", rejectionReason |-> Str(LowScoreReason(greenScore))]
    ELSE [newStatus |-> "approved", rejectionReason |-> Null]

\* Rejection Criteria
Disposition(passed, greenScore) ==
    IF ~passed
    THEN [newStatus |-> "rejected", rejectionReason |-> Str(GreenwashingReason)]
    ELSE IF JsLt(greenScore, 50)
    THEN [newStatus |-> "rejected", rejectionReason |-> Str(LowScoreReason(greenScore))]
    ELSE [newStatus |-> "approved", rejectionReason |-> Null]

\* a faulty update: the status of the earlier handler, 'verified', is written
ApplyVerdictVerified(loan, scoreResult, disp) ==
    [loan EXCEPT !.status = "verified",
                 !.aiScore = Num(scoreResult.greenScore),
                 !.sustainabilityClass = Str(scoreResult.sustainabilityClass)]

\* loan.status = ...; loan.aiScore = ...; loan.sustainabilityClass = ...;
\* if (rejectionReason) loan.rejectionReason = rejectionReason
ApplyVerdict(loan, scoreResult, disp) ==
    [loan EXCEPT !.status = disp.newStatus,
                 !.aiScore = Num(scoreResult.greenScore),
                 !.sustainabilityClass = Str(scoreResult.sustainabilityClass),
                 !.rejectionReason = IF Truthy(disp.rejectionReason)
                                     THEN disp.rejectionReason ELSE @]

\* the index of the first "," of s, or 0
FirstComma(s) ==
    IF \E i \in 1..Len(s) : CharAt(s, i) = ","
    THEN CHOOSE i \in 1..Len(s) :
            CharAt(s, i) = "," /\ \A j \in 1..(i - 1) : CharAt(s, j) # ","
    ELSE 0

\* s.split(',')[0]
SplitFirst(s) == IF FirstComma(s) = 0 THEN s ELSE SubSeq(s, 1, FirstComma(s) - 1)

\* s.split(',')[1] || ''
SplitSecond(s) ==
    IF FirstComma(s) = 0 THEN ""
    ELSE SplitFirst(SubSeq(s, FirstComma(s) + 1, Len(s)))

\* loan.projectLocation?.split(...) throws for a value that is neither a
\* string nor null/undefined
SplitThrows(loan) ==
    ~IsUndefined(loan.projectLocation) /\ loan.projectLocation.t # "null"
    /\ ~IsStr(loan.projectLocation)

\* { city: loan.projectLocation?.split(',')[0] || '', state: ...[1] || '' }
orchestratorLocation(loan) ==
    IF IsStr(loan.projectLocation)
    THEN [city |-> SplitFirst(loan.projectLocation.s),
          state |-> SplitSecond(loan.projectLocation.s)]
    ELSE [city |-> "", state |-> ""]

\* a faulty record: the climate-risk result is left out
verdictOfNoClimate(loan, scoreResult, greenwashingResult, now) ==
    [threw |-> FALSE,
     scoreResult |-> scoreResult,
     verification |->
         [loanId |-> loan.loanId,
          completed |-> TRUE,
          greenScore |-> scoreResult.greenScore,
          sustainabilityClass |-> scoreResult.sustainabilityClass,
          reasoning |-> scoreResult.reasoning,
          greenwashingCheck |-> greenwashingResult,
          completedAt |-> now],
     disp |-> Disposition(greenwashingResult.passed, scoreResult.greenScore)]

\* 3. Prepare Verification Result, Rejection Criteria
verdictOf(loan, scoreResult, greenwashingResult, now) ==
    [threw |-> FALSE,
     scoreResult |-> scoreResult,
     verification |->
         [loanId |-> loan.loanId,
          completed |-> TRUE,
          greenScore |-> scoreResult.greenScore,
          sustainabilityClass |-> scoreResult.sustainabilityClass,
          reasoning |-> scoreResult.reasoning,
          greenwashingCheck |-> greenwashingResult,
          climateRisk |-> assessClimateRisk(orchestratorLocation(loan), now),
          completedAt |-> now],
     disp |-> Disposition(greenwashingResult.passed, scoreResult.greenScore)]

\* 2. Calculate Scores; a throw of the scoring or of split() is caught below
Verdict(loan, now) ==
    IF ScoreThrows(loan) \/ SplitThrows(loan) THEN [threw |-> TRUE]
    ELSE Bind(<<calculateGreenScore(loan, now), runGreenwashingCheck(loan, now)>>,
              LAMBDA res : verdictOf(loan, res[1], res[2], now))

(***************************************************************************)
(* services/blockchainService.js: the audit log                            *)
(***************************************************************************)
\* auditLogs.unshift(record)
recordEvent(logs, event) == <<event>> \o logs

verificationEvent(loan, scoreResult) ==
    [eventType |-> "verification_complete",
     loanId |-> loan.loanId,
     description |-> "AI Verification completed: Green Score "
                     \o ScoreText(scoreResult.greenScore)]

(***************************************************************************)
(* Bounds and inputs                                                       *)
(***************************************************************************)
\* loans ever created, over both stores
MaxLoans == 1
\* verification requests ever started
MaxRequests == 2
\* readings of the clock (new Date()) in the rule-engine specification
MaxClock == 1

Coordinates(lat, long) == [t |-> "object", latitude |-> lat, longitude |-> long]

\* request bodies of POST /api/loans (the fields the handlers read)
Body(objective, turnover, years, savings, amount, location, coords, reason) ==
    [greenObjective |-> objective, annualTurnover |-> turnover,
     yearsInBusiness |-> years, estimatedSavings |-> savings,
     loanAmount |-> amount, projectLocation |-> location,
     locationCoordinates |-> coords, rejectionReason |-> reason]

WeakBody ==
    Body(Str("agriculture"), Num(0), Undefined, Num(0), Num(100000),
         Undefined, Undefined, Undefined)
ResubmittedBody ==
    Body(Str("waste"), Str("50,00,000"), Num(4), Num(900000), Num(1200000),
         Str("Kerala"), Coordinates(Num(1085), Num(7627)),
         Str(LowScoreReason(40)))
InheritedKeyBody ==
    Body(Str("constructor"), Num(2000000), Num(2), Num(0), Num(500000),
         Str("Pune, Maharashtra"), Undefined, Undefined)
NumericLocationBody ==
    Body(Str("ev"), Num(6000000), Num(3), Num(400000), Num(800000),
         Num(560001), Undefined, Undefined)

LoanBodies == {WeakBody, ResubmittedBody, InheritedKeyBody, NumericLocationBody}

\* the projectData records the rule engine is evaluated on
ObjectiveSamples ==
    {Undefined, Str("solar"), Str("wind"), Str("waste"), Str("ev"),
     Str("Energy Efficiency"), Str("water"), Str("agriculture"),
     Str("constructor"), Num(7)}
TurnoverSamples == {Undefined, Num(1000000), Num(5000000), Str("9,99,999")}
YearsSamples == {Undefined, Num(3), Str("2.5 years")}
SavingsSamples == {Num(0), Num(240000), Num(600000), Num(3000000)}
AmountSamples == {Undefined, Num(1200000), Num(2400000)}
LocationSamples ==
    {Undefined, Str("Rajasthan"), Str("Mumbai, Maharashtra"), Str("Kerala"),
     Str("Punjab"), Num(560001)}
CoordinateSamples ==
    {Undefined, Coordinates(Num(2691), Num(7579)), Coordinates(Num(1085), Undefined)}

ScoreInputs ==
    [greenObjective : ObjectiveSamples, annualTurnover : TurnoverSamples,
     yearsInBusiness : YearsSamples, estimatedSavings : SavingsSamples,
     loanAmount : AmountSamples, projectLocation : LocationSamples,
     locationCoordinates : CoordinateSamples]

(***************************************************************************)
(* extractClaimMock(text): the patterns are matched on the lower-cased     *)
(* text (every pattern carries the i flag). A position is the index of the *)
(* next character to read; a set of positions is what a part of a pattern  *)
(* can reach.                                                              *)
(***************************************************************************)
WhiteSpace == {" ", "\t", "\n"}

\* \s* from the positions P
SkipWs(s, P) ==
    {q \in 1..(Len(s) + 1) :
        \E p \in P : p <= q /\ \A k \in p..(q - 1) : CharAt(s, k) \in WhiteSpace}

\* the literal w from the positions P
Lit(s, P, w) ==
    {p + Len(w) : p \in {q \in P : q + Len(w) - 1 <= Len(s)
                                   /\ SubSeq(s, q, q + Len(w) - 1) = w}}

\* (w1|w2|...) from the positions P
AnyLit(s, P, ws) == UNION {Lit(s, P, w) : w \in ws}

\* (?:of\s*)? from the positions P
OptOf(s, P) == P \cup SkipWs(s, Lit(s, P, "of"))

\* \d+ read at position i
IntEnds(s, i) == {i + k : k \in 1..DigitRun(s, i)}

\* \d+(?:,\d+)* read at position i
GroupEnds(s, i) ==
    LET F[j \in i..(Len(s) + 1)] ==
            IF DigitRun(s, j) = 0 THEN {}
            ELSE IntEnds(s, j)
                 \cup (IF j + DigitRun(s, j) < Len(s) /\ CharAt(s, j + DigitRun(s, j)) = ","
                       THEN F[j + DigitRun(s, j) + 1] ELSE {})
    IN  IF i > Len(s) THEN {} ELSE F[i]

\* (?:\.\d+)? after the ends E of an integer part
FracEnds(s, E) ==
    E \cup UNION {{e + 1 + k : k \in 1..DigitRun(s, e + 1)} :
                    e \in {x \in E : x <= Len(s) /\ CharAt(s, x) = "."}}

\* (\d+(?:\.\d+)?) and (\d+(?:,\d+)*(?:\.\d+)?) read at position i
DecimalEnds(s, i) == FracEnds(s, IntEnds(s, i))
GroupDecimalEnds(s, i) == FracEnds(s, GroupEnds(s, i))

SetMin(S) == CHOOSE x \in S : \A y \in S : x <= y
SetMax(S) == CHOOSE x \in S : \A y \in S : x >= y

\* text.match(pattern)[1] for a pattern with one number group: Before(i) are
\* the positions where the group can start in a match that starts at i,
\* Ends(b) the positions where a group started at b can end, After(e) the
\* positions the rest of the pattern reaches from e. The match is the
\* leftmost one; the quantifiers before the group are settled first and the
\* group is greedy. "" when there is no match.
Capture(s, Before(_), Ends(_), After(_)) ==
    LET Fits(b) == {e \in Ends(b) : After(e) # {}}
        Begins(i) == {b \in Before(i) : Fits(b) # {}}
        Starts == {i \in 1..Len(s) : Begins(i) # {}}
    IN  IF Starts = {} THEN ""
        ELSE LET b == SetMin(Begins(SetMin(Starts)))
             IN  SubSeq(s, b, SetMax(Fits(b)) - 1)

\* pattern.test(text) for  a\s*(?:b1|b2|...)
TestPair(s, a, bs) ==
    \E i \in 1..Len(s) : AnyLit(s, SkipWs(s, Lit(s, {i}, a)), bs) # {}

\* the first capture of a list of patterns that is not empty
FirstCapture(captures) ==
    LET Hits == {k \in 1..Len(captures) : captures[k] # ""}
    IN  IF Hits = {} THEN "" ELSE captures[SetMin(Hits)]

\* Number(match[1]), in tenths
NumberOf(capture) == Num(FloatOf(NumericOf(capture)).v)

Tonnes == {"tonnes", "tonne", "tons", "ton"}

\* a faulty detection: the vehicle keywords are tried before the solar ones
projectTypeOfVehicleFirst(lower) ==
    IF SomeIncluded(<<"ev", "electric vehicle", "charging station">>, lower)
    THEN Str("ev")
    ELSE IF SomeIncluded(<<"solar", "photovoltaic", "pv panel">>, lower) THEN Str("solar")
    ELSE IF SomeIncluded(<<"waste", "recycling", "composting">>, lower) THEN Str("waste")
    ELSE IF SomeIncluded(<<"energy efficiency", "led", "insulation", "hvac", "vrf",
                           "variable refrigerant", "lighting system">>, lower)
         THEN Str("energy_efficiency")
    ELSE IF SomeIncluded(<<"water", "rainwater", "sewage", "irrigation">>, lower)
         THEN Str("water")
    ELSE Null

\* Detect project type
projectTypeOf(lower) ==
    IF SomeIncluded(<<"solar", "photovoltaic", "pv panel">>, lower) THEN Str("solar")
    ELSE IF SomeIncluded(<<"ev", "electric vehicle", "charging station">>, lower)
         THEN Str("ev")
    ELSE IF SomeIncluded(<<"waste", "recycling", "composting">>, lower) THEN Str("waste")
    ELSE IF SomeIncluded(<<"energy efficiency", "led", "insulation", "hvac", "vrf",
                           "variable refrigerant", "lighting system">>, lower)
         THEN Str("energy_efficiency")
    ELSE IF SomeIncluded(<<"water", "rainwater", "sewage", "irrigation">>, lower)
         THEN Str("water")
    ELSE Null

\* capacityPatterns
capacityCapture(s) ==
    FirstCapture(<<
        Capture(s, LAMBDA i : {i}, LAMBDA b : DecimalEnds(s, b),
                LAMBDA e : Lit(s, SkipWs(s, {e}), "kw")),
        Capture(s, LAMBDA i : {i}, LAMBDA b : DecimalEnds(s, b),
                LAMBDA e : Lit(s, SkipWs(s, {e}), "kilowatt")),
        Capture(s, LAMBDA i : OptOf(s, SkipWs(s, Lit(s, {i}, "capacity"))),
                LAMBDA b : DecimalEnds(s, b), LAMBDA e : {e}),
        Capture(s, LAMBDA i : {i}, LAMBDA b : DecimalEnds(s, b),
                LAMBDA e : Lit(s, SkipWs(s, {e}), "kw"))>>)

\* vendorPatterns, in the order they are tried
vendorOf(s) ==
    IF \E i \in 1..Len(s) :
          Lit(s, SkipWs(s, Lit(s, {i}, "tata"))
                 \cup SkipWs(s, Lit(s, SkipWs(s, Lit(s, {i}, "tata")), "power")),
              "solar") # {}
    THEN Str("Tata Power Solar")
    ELSE IF Includes(s, "adani") THEN Str("Adani Solar")
    ELSE IF Includes(s, "waaree") THEN Str("Waaree Energies")
    ELSE IF TestPair(s, "vikram", {"solar"}) THEN Str("Vikram Solar")
    ELSE IF Includes(s, "luminous") THEN Str("Luminous")
    ELSE IF Includes(s, "havells") THEN Str("Havells")
    ELSE IF Includes(s, "suzlon") THEN Str("Suzlon Energy")
    ELSE IF TestPair(s, "renew", {"power"}) THEN Str("ReNew Power")
    ELSE IF TestPair(s, "hero", {"electric", "future"}) THEN Str("Hero Electric")
    ELSE IF Includes(s, "ather") THEN Str("Ather Energy")
    ELSE IF TestPair(s, "ola", {"electric"}) THEN Str("Ola Electric")
    ELSE Null

\* certPatterns: every pattern that matches pushes its name
certificationsOf(s) ==
    (IF TestPair(s, "iso", {"14001"}) THEN <<"ISO 14001">> ELSE <<>>)
    \o (IF TestPair(s, "iso", {"9001"}) THEN <<"ISO 9001">> ELSE <<>>)
    \o (IF Includes(s, "leed") THEN <<"LEED">> ELSE <<>>)
    \o (IF Includes(s, "griha") THEN <<"GRIHA">> ELSE <<>>)
    \o (IF Includes(s, "igbc") THEN <<"IGBC">> ELSE <<>>)
    \o (IF Includes(s, "bis") THEN <<"BIS Certified">> ELSE <<>>)
    \o (IF TestPair(s, "mnre", {"approved", "certified"})
        THEN <<"MNRE Approved">> ELSE <<>>)
    \o (IF TestPair(s, "bee", {"star", "rated", "certified"})
        THEN <<"BEE Star Rated">> ELSE <<>>)

\* co2Patterns
co2Capture(s) ==
    FirstCapture(<<
        Capture(s, LAMBDA i : {i}, LAMBDA b : DecimalEnds(s, b),
                LAMBDA e : Lit(s, OptOf(s, SkipWs(s, AnyLit(s, SkipWs(s, {e}), Tonnes))),
                               "co2")),
        Capture(s, LAMBDA i : OptOf(s, SkipWs(s,
                        AnyLit(s, SkipWs(s, Lit(s, {i}, "co2")),
                               {"savings", "saving", "reduction", "saved", "save"}))),
                LAMBDA b : DecimalEnds(s, b), LAMBDA e : {e}),
        Capture(s, LAMBDA i : SkipWs(s, Lit(s, {i}, "save")),
                LAMBDA b : DecimalEnds(s, b),
                LAMBDA e : AnyLit(s, SkipWs(s, {e}), Tonnes)),
        Capture(s, LAMBDA i : SkipWs(s, Lit(s, {i}, "reduce")),
                LAMBDA b : DecimalEnds(s, b),
                LAMBDA e : AnyLit(s, SkipWs(s, {e}), Tonnes)),
        Capture(s, LAMBDA i : {i}, LAMBDA b : DecimalEnds(s, b),
                LAMBDA e : AnyLit(s, SkipWs(s, AnyLit(s, SkipWs(s, {e}), Tonnes)),
                                  {"carbon", "co2"}))>>)

\* \s*kwh from the position e
Kwh(s, e) == Lit(s, SkipWs(s, {e}), "kwh")

\* [\s\/]* from the positions P
SkipWsSlash(s, P) ==
    {q \in 1..(Len(s) + 1) :
        \E p \in P : p <= q /\ \A k \in p..(q - 1) : CharAt(s, k) \in WhiteSpace \cup {"/"}}

\* energyPatterns
energyCapture(s) ==
    FirstCapture(<<
        Capture(s, LAMBDA i : {i}, LAMBDA b : GroupDecimalEnds(s, b),
                LAMBDA e : Lit(s, SkipWs(s, Lit(s, SkipWs(s, Kwh(s, e)), "per")), "year")
                           \cup Lit(s, SkipWs(s, Kwh(s, e)), "annually")
                           \cup Lit(s, SkipWs(s, Lit(s, SkipWs(s, Kwh(s, e)), "/")), "year")),
        Capture(s, LAMBDA i : SkipWs(s, Lit(s, {i}, "generate")),
                LAMBDA b : GroupDecimalEnds(s, b), LAMBDA e : Kwh(s, e)),
        Capture(s, LAMBDA i : {i}, LAMBDA b : GroupDecimalEnds(s, b),
                LAMBDA e : AnyLit(s, OptOf(s, SkipWs(s, Kwh(s, e))),
                                  {"electricity", "energy", "power"})),
        Capture(s, LAMBDA i : OptOf(s, SkipWs(s,
                        AnyLit(s, SkipWs(s, Lit(s, {i}, "annual")),
                               {"generation", "output"}))),
                LAMBDA b : GroupDecimalEnds(s, b), LAMBDA e : Kwh(s, e)),
        Capture(s, LAMBDA i : SkipWs(s, {i} \cup AnyLit(s, {i}, {"approx", "approx.",
                                                                "approximately"})),
                LAMBDA b : GroupEnds(s, b),
                LAMBDA e : Lit(s, SkipWs(s, Lit(s, SkipWs(s, Kwh(s, e)), "/")), "year")),
        Capture(s, LAMBDA i : {b \in 1..Len(s) : Lit(s, {i}, "reduce") # {} /\ b >= i + 6},
                LAMBDA b : GroupEnds(s, b), LAMBDA e : Kwh(s, e)),
        Capture(s, LAMBDA i : {i}, LAMBDA b : GroupEnds(s, b),
                LAMBDA e : AnyLit(s, LET P == SkipWsSlash(s, Kwh(s, e))
                                     IN  P \cup SkipWs(s, Lit(s, P, "per")),
                                  {"year", "yr", "annually"}))>>)

Arr(items) == [t |-> "array", items |-> items]

ClaimedImpact(co2, energy) ==
    [t |-> "object", co2_saved_tonnes_per_year |-> co2,
     energy_generated_kwh_per_year |-> energy]

Claim(type, capacity, vendor, certifications, impact) ==
    [project_type |-> type, capacity_kw |-> capacity, vendor |-> vendor,
     certifications |-> certifications, claimed_impact |-> impact]

claimOfLower(s) ==
    Claim(projectTypeOf(s),
          Bind(capacityCapture(s), LAMBDA c : IF c = "" THEN Null ELSE NumberOf(c)),
          vendorOf(s),
          Arr(certificationsOf(s)),
          ClaimedImpact(
              Bind(co2Capture(s), LAMBDA c : IF c = "" THEN Null ELSE NumberOf(c)),
              Bind(energyCapture(s), LAMBDA c : IF c = "" THEN Null ELSE NumberOf(c))))

extractClaimMock(text) == Bind(ToLowerCase(text), claimOfLower)

(***************************************************************************)
(* calculateExtractionConfidence(extracted). The running score is kept in  *)
(* thousandths, the confidence returned in hundredths.                     *)
(***************************************************************************)
\* v != null
NotNullish(v) == v.t \notin {"null", "undefined"}

\* extracted.claimed_impact?.name != null
hasCO2(extracted) ==
    /\ extracted.claimed_impact.t = "object"
    /\ NotNullish(extracted.claimed_impact.co2_saved_tonnes_per_year)
hasEnergy(extracted) ==
    /\ extracted.claimed_impact.t = "object"
    /\ NotNullish(extracted.claimed_impact.energy_generated_kwh_per_year)

\* extracted.certifications?.length || 0
certificationCount(extracted) ==
    IF extracted.certifications.t = "array" THEN Len(extracted.certifications.items) ELSE 0

\* the penalties, in the order they are applied
penaltiesOf(extracted) ==
    (IF ~Truthy(extracted.project_type)
     THEN <<[field |-> "project_type", penalty |-> 200]>> ELSE <<>>)
    \o (IF ~Truthy(extracted.capacity_kw)
        THEN <<[field |-> "capacity_kw", penalty |-> 250]>> ELSE <<>>)
    \o (IF ~Truthy(extracted.vendor)
        THEN <<[field |-> "vendor", penalty |-> 200]>> ELSE <<>>)
    \o (IF ~hasCO2(extracted) /\ ~hasEnergy(extracted)
        THEN <<[field |-> "claimed_impact", penalty |-> 150]>> ELSE <<>>)

RECURSIVE SumPenalties(_)
SumPenalties(signals) ==
    IF signals = <<>> THEN 0 ELSE Head(signals).penalty + SumPenalties(Tail(signals))

\* faulty variants of the bonus: no cap, and Math.max in place of Math.min
certificationBonusUncapped(extracted) == certificationCount(extracted) * 50

certificationBonusAtLeast(extracted) ==
    IF certificationCount(extracted) > 0
    THEN Max(certificationCount(extracted) * 50, 100) ELSE 0

\* Math.min(extracted.certifications.length * 0.05, 0.1), when there is one
certificationBonus(extracted) ==
    IF certificationCount(extracted) > 0
    THEN Min(certificationCount(extracted) * 50, 100) ELSE 0

\* Math.round(score * 100) / 100: thousandths to hundredths, halves go up
RoundToHundredths(score) == (score + 5) \div 10

calculateExtractionConfidence(extracted) ==
    LET signals == penaltiesOf(extracted)
        score == Max(0, Min(1000, 1000 - SumPenalties(signals)
                                  + certificationBonus(extracted)))
    IN  [confidence |-> RoundToHundredths(score),
         signals |-> signals,
         completeness |->
            [hasProjectType |-> Truthy(extracted.project_type),
             hasCapacity |-> Truthy(extracted.capacity_kw),
             hasVendor |-> Truthy(extracted.vendor),
             hasCertifications |-> certificationCount(extracted) > 0,
             hasImpactMetrics |-> hasCO2(extracted) \/ hasEnergy(extracted)]]

\* getConfidenceLevel(confidence)
getConfidenceLevel(confidence) ==
    IF confidence >= 85 THEN "high"
    ELSE IF confidence >= 60 THEN "medium"
    ELSE IF confidence >= 40 THEN "low"
    ELSE "very_low"

(***************************************************************************)
(* State                                                                   *)
(***************************************************************************)
VARIABLES
    dbPhase,            \* config/db.js: connecting | connected | failed | lost
    dbLoans,            \* the LoanApplication collection, in insertion order
    localLoans,         \* services/store.js: localLoans
    localVerifications, \* routes/verification.js: localVerifications (a Map)
    auditLogs,          \* services/blockchainService.js: auditLogs
    requests,           \* the POST /api/verify/green-score requests
    clock,              \* the reading of new Date()
    sInput,             \* rule engine: the projectData under evaluation
    sResult,            \* rule engine: what calculateGreenScore returned
    sPrev,              \* rule engine: what the call before returned
    rInput,             \* decision block: a greenwashing outcome and a score
    rOutput,            \* decision block: the loan after the update
    gwResult,           \* what runGreenwashingCheck returned for sInput
    riskResult,         \* what assessClimateRisk returned for sInput's location
    claimText,          \* POST /api/ai/extract-claim: req.body.text
    extractedClaim,     \* the extracted claim
    confidenceResult,   \* what calculateExtractionConfidence returned
    extractionResponse  \* the response of POST /api/ai/extract-claim

storeVars == <<dbPhase, dbLoans, localLoans, localVerifications, auditLogs, requests>>
scoreVars == <<sInput, sResult, sPrev, rInput, rOutput>>
claimVars == <<gwResult, riskResult, claimText, extractedClaim, confidenceResult,
               extractionResponse>>
vars == <<dbPhase, dbLoans, localLoans, localVerifications, auditLogs, requests,
          clock, sInput, sResult, sPrev, rInput, rOutput, gwResult, riskResult,
          claimText, extractedClaim, confidenceResult, extractionResponse>>

None == [t |-> "none"]

Requests == 1..MaxRequests

\* export const isDbConnected = () => isConnected;
isDbConnected == dbPhase = "connected"

IdleRequest ==
    [pc |-> "idle", loanId |-> "", src |-> "none", idx |-> 0, verdict |-> None, code |-> 0]

StoreInit ==
    /\ dbPhase = "connecting"
    /\ dbLoans = <<>>
    /\ localLoans = <<>>
    /\ localVerifications = <<>>
    /\ auditLogs = <<>>
    /\ requests = [r \in Requests |-> IdleRequest]

ScoreIdle ==
    /\ sInput = None
    /\ sResult = None
    /\ sPrev = None
    /\ rInput = None
    /\ rOutput = None

ClaimIdle ==
    /\ gwResult = None
    /\ riskResult = None
    /\ claimText = None
    /\ extractedClaim = None
    /\ confidenceResult = None
    /\ extractionResponse = None

Init ==
    /\ StoreInit
    /\ ScoreIdle
    /\ ClaimIdle
    /\ clock = 0

(***************************************************************************)
(* config/db.js                                                            *)
(***************************************************************************)
\* mongoose.connect resolved: isConnected = true
ConnectOk ==
    /\ dbPhase = "connecting"
    /\ dbPhase' = "connected"
    /\ UNCHANGED <<dbLoans, localLoans, localVerifications, auditLogs, requests, clock>>
    /\ UNCHANGED scoreVars
    /\ UNCHANGED claimVars

\* mongoose.connect rejected: isConnected = false, in-memory mode
ConnectFail ==
    /\ dbPhase = "connecting"
    /\ dbPhase' = "failed"
    /\ UNCHANGED <<dbLoans, localLoans, localVerifications, auditLogs, requests, clock>>
    /\ UNCHANGED scoreVars
    /\ UNCHANGED claimVars

\* the 'error' and 'disconnected' events: isConnected = false
Disconnected ==
    /\ dbPhase = "connected"
    /\ dbPhase' = "lost"
    /\ UNCHANGED <<dbLoans, localLoans, localVerifications, auditLogs, requests, clock>>
    /\ UNCHANGED scoreVars
    /\ UNCHANGED claimVars

(***************************************************************************)
(* routes/loans.js: POST /api/loans                                        *)
(***************************************************************************)
\* `TL-${year}-${String(count + 1).padStart(3, '0')}`
PadStart3(str) ==
    IF Len(str) = 1 THEN "00" \o str ELSE IF Len(str) = 2 THEN "0" \o str ELSE str

loanIdOf(count) == "TL-2026-" \o PadStart3(NatToString(count + 1))

\* parseFloat(String(x).replace(/,/g, '')) || 0, for whole amounts
RemoveCommas(s) ==
    LET F[i \in 0..Len(s)] ==
            IF i = 0 THEN ""
            ELSE F[i - 1] \o (IF CharAt(s, i) = "," THEN "" ELSE CharAt(s, i))
    IN  F[Len(s)]

parseAmount(x) == Num(OrDefault(ParseFloat(RemoveCommas(ToJsString(x))), 0) \div 10)

\* const userId = req.user.id: the requester the token was issued to
RequesterId == "user-1"

\* { ...loanData }: a property the body carries replaces the one written
\* before the spread
Spread(loanData, key, value) ==
    IF key \in DOMAIN loanData THEN loanData[key] ELSE value

\* In-Memory Logic: the body is spread into the new loan after _id, user and
\* loanId, and before loanAmount, estimatedSavings and status
newLocalLoan(loanData, count, now) ==
    [_id |-> Spread(loanData, "_id", "local_loan_" \o NatToString(now)),
     user |-> Spread(loanData, "user", RequesterId),
     loanId |-> Spread(loanData, "loanId", loanIdOf(count)),
     greenObjective |-> loanData.greenObjective,
     annualTurnover |-> loanData.annualTurnover,
     yearsInBusiness |-> loanData.yearsInBusiness,
     projectLocation |-> loanData.projectLocation,
     locationCoordinates |-> loanData.locationCoordinates,
     rejectionReason |-> loanData.rejectionReason,
     loanAmount |-> parseAmount(loanData.loanAmount),
     estimatedSavings |-> parseAmount(loanData.estimatedSavings),
     status |-> "pending_verification",
     aiScore |-> Undefined,
     sustainabilityClass |-> Undefined]

PostLoanLocal(loanData) ==
    /\ ~isDbConnected
    /\ Len(dbLoans) + Len(localLoans) < MaxLoans
    /\ localLoans' = Append(localLoans, newLocalLoan(loanData, Len(localLoans), clock))
    /\ UNCHANGED <<dbPhase, dbLoans, localVerifications, auditLogs, requests, clock>>
    /\ UNCHANGED scoreVars
    /\ UNCHANGED claimVars

\* models/LoanApplication.js: the schema's casts and validators
greenObjectiveEnum == {"solar", "ev", "waste", "water", "agriculture", "efficiency"}

SchemaAccepts(loanData) ==
    /\ IsStr(loanData.greenObjective)
    /\ loanData.greenObjective.s \in greenObjectiveEnum
    /\ ~IsStr(loanData.annualTurnover)
    /\ ~IsStr(loanData.yearsInBusiness)
    /\ parseAmount(loanData.loanAmount).n >= 100000
    /\ parseAmount(loanData.loanAmount).n <= 50000000

\* a String path casts a number to its text
CastString(v) == IF IsNum(v) THEN Str(ToJsString(v)) ELSE v

\* LoanApplication.create({...}); the pre-save hook sets loanId
newDbLoan(loanData, count) ==
    [_id |-> "objectid-" \o NatToString(count + 1),
     user |-> RequesterId,
     loanId |-> loanIdOf(count),
     greenObjective |-> loanData.greenObjective,
     annualTurnover |-> loanData.annualTurnover,
     yearsInBusiness |-> loanData.yearsInBusiness,
     projectLocation |-> CastString(loanData.projectLocation),
     locationCoordinates |-> Undefined,
     rejectionReason |-> Undefined,
     loanAmount |-> parseAmount(loanData.loanAmount),
     estimatedSavings |-> parseAmount(loanData.estimatedSavings),
     status |-> "pending_verification",
     aiScore |-> Undefined,
     sustainabilityClass |-> Undefined]

PostLoanDb(loanData) ==
    /\ isDbConnected
    /\ Len(dbLoans) + Len(localLoans) < MaxLoans
    /\ SchemaAccepts(loanData)
    /\ dbLoans' = Append(dbLoans, newDbLoan(loanData, Len(dbLoans)))
    /\ auditLogs' = recordEvent(auditLogs,
                        [eventType |-> "loan_application",
                         loanId |-> loanIdOf(Len(dbLoans)),
                         description |-> "Loan application submitted"])
    /\ UNCHANGED <<dbPhase, localLoans, localVerifications, requests, clock>>
    /\ UNCHANGED scoreVars
    /\ UNCHANGED claimVars

(***************************************************************************)
(* routes/verification.js: POST /api/verify/green-score                    *)
(***************************************************************************)
\* identifiers a client may send as req.body.loanId
RequestIds == {loanIdOf(n) : n \in 0..(MaxLoans - 1)} \cup {"local_loan_0", "TL-2026-999"}

\* LoanApplication.findOne({ $or: [{ loanId }, { _id: <24 hex digits> or null }] })
dbFind(id) ==
    IF \E k \in 1..Len(dbLoans) : dbLoans[k].loanId = id
    THEN CHOOSE k \in 1..Len(dbLoans) :
            dbLoans[k].loanId = id /\ \A j \in 1..(k - 1) : dbLoans[j].loanId # id
    ELSE 0

LocalMatch(l, id) == l.loanId = id \/ l._id = id

\* a faulty lookup: the first loan stands in for one that is not found
localFindFirst(id) ==
    IF \E k \in 1..Len(localLoans) : LocalMatch(localLoans[k], id)
    THEN CHOOSE k \in 1..Len(localLoans) :
            LocalMatch(localLoans[k], id)
            /\ \A j \in 1..(k - 1) : ~LocalMatch(localLoans[j], id)
    ELSE IF Len(localLoans) > 0 THEN 1 ELSE 0

\* localLoans.find(l => l.loanId === loanId || l._id === loanId)
localFind(id) ==
    IF \E k \in 1..Len(localLoans) : LocalMatch(localLoans[k], id)
    THEN CHOOSE k \in 1..Len(localLoans) :
            LocalMatch(localLoans[k], id)
            /\ \A j \in 1..(k - 1) : ~LocalMatch(localLoans[j], id)
    ELSE 0

\* localVerifications.set(key, verification)
MapSet(map, key, value) == (key :> value) @@ map

Finish(r, id, src, idx, verdict, code) ==
    [requests EXCEPT ![r] = [@ EXCEPT !.pc = "done", !.loanId = id, !.src = src,
                                      !.idx = idx, !.verdict = verdict, !.code = code]]

\* lines 29-100, run without a pause once the loan has been looked up in the
\* database (found = its index, or 0)
Continue(r, id, found) ==
    LET src == IF found # 0 THEN "db" ELSE IF localFind(id) # 0 THEN "local" ELSE "none"
        idx == IF found # 0 THEN found ELSE localFind(id)
        loan == IF src = "db" THEN dbLoans[idx] ELSE localLoans[idx]
    IN  IF src = "none" THEN
            \* return res.status(404).json({ error: 'Loan not found' })
            /\ requests' = Finish(r, id, "none", 0, None, 404)
            /\ UNCHANGED <<dbLoans, localLoans, localVerifications, auditLogs>>
        ELSE \E v \in {Verdict(loan, clock)} :
        IF v.threw THEN
            \* catch (error): res.status(500).json({ error: 'Verification failed' })
            /\ requests' = Finish(r, id, src, idx, None, 500)
            /\ UNCHANGED <<dbLoans, localLoans, localVerifications, auditLogs>>
        ELSE IF isDbConnected /\ src = "db" THEN
            \* if (isDbConnected() && loan.save): the fields are set on the
            \* document and the handler waits for loan.save()
            /\ requests' = [requests EXCEPT ![r] =
                                [@ EXCEPT !.pc = "saving", !.loanId = id, !.src = src,
                                          !.idx = idx, !.verdict = v]]
            /\ UNCHANGED <<dbLoans, localLoans, localVerifications, auditLogs>>
        ELSE
            \* Update local object: the object fetched, which is the element
            \* of localLoans or a document that is never saved
            /\ localLoans' = IF src = "local"
                             THEN [localLoans EXCEPT ![idx] =
                                      ApplyVerdict(@, v.scoreResult, v.disp)]
                             ELSE localLoans
            /\ localVerifications' = MapSet(localVerifications, loan.loanId, v.verification)
            /\ auditLogs' = recordEvent(auditLogs, verificationEvent(loan, v.scoreResult))
            /\ requests' = Finish(r, id, src, idx, v, 200)
            /\ UNCHANGED dbLoans

\* the request arrives; with the database connected it waits for findOne
VerifyStart(r, id) ==
    /\ requests[r].pc = "idle"
    /\ \A q \in Requests : q < r => requests[q].pc # "idle"
    /\ IF isDbConnected
       THEN /\ requests' = [requests EXCEPT ![r] = [@ EXCEPT !.pc = "finding", !.loanId = id]]
            /\ UNCHANGED <<dbLoans, localLoans, localVerifications, auditLogs>>
       ELSE Continue(r, id, 0)
    /\ UNCHANGED <<dbPhase, clock>>
    /\ UNCHANGED scoreVars
    /\ UNCHANGED claimVars

\* findOne resolved
FindResolved(r) ==
    /\ requests[r].pc = "finding"
    /\ Continue(r, requests[r].loanId, dbFind(requests[r].loanId))
    /\ UNCHANGED <<dbPhase, clock>>
    /\ UNCHANGED scoreVars
    /\ UNCHANGED claimVars

\* findOne rejected: caught, 500
FindRejected(r) ==
    /\ requests[r].pc = "finding"
    /\ requests' = Finish(r, requests[r].loanId, "none", 0, None, 500)
    /\ UNCHANGED <<dbPhase, dbLoans, localLoans, localVerifications, auditLogs, clock>>
    /\ UNCHANGED scoreVars
    /\ UNCHANGED claimVars

\* the paths of the schema that the handler assigned are written
SavedDocument(doc, v) ==
    [doc EXCEPT !.status = v.disp.newStatus,
                !.aiScore = Num(v.scoreResult.greenScore),
                !.sustainabilityClass = Str(v.scoreResult.sustainabilityClass)]

\* loan.save() resolved; lines 88-100 follow
SaveResolved(r) ==
    LET q == requests[r]
        v == q.verdict
    IN  /\ q.pc = "saving"
        /\ dbLoans' = [dbLoans EXCEPT ![q.idx] = SavedDocument(@, v)]
        /\ localVerifications' =
               MapSet(localVerifications, dbLoans[q.idx].loanId, v.verification)
        /\ auditLogs' = recordEvent(auditLogs, verificationEvent(dbLoans[q.idx], v.scoreResult))
        /\ requests' = Finish(r, q.loanId, q.src, q.idx, v, 200)
        /\ UNCHANGED <<dbPhase, localLoans, clock>>
        /\ UNCHANGED scoreVars
        /\ UNCHANGED claimVars

\* loan.save() rejected: caught, 500
SaveRejected(r) ==
    /\ requests[r].pc = "saving"
    /\ requests' = Finish(r, requests[r].loanId, requests[r].src, requests[r].idx, None, 500)
    /\ UNCHANGED <<dbPhase, dbLoans, localLoans, localVerifications, auditLogs, clock>>
    /\ UNCHANGED scoreVars
    /\ UNCHANGED claimVars

(***************************************************************************)
(* The rule engine and the decision block on their own: the inputs are     *)
(* drawn first, the functions are then applied to them.                    *)
(***************************************************************************)
\* loans the decision block updates: never verified, and carrying a reason
ProbeLoans ==
    {newLocalLoan(WeakBody, 0, 0), newLocalLoan(ResubmittedBody, 0, 0)}

\* every greenwashing outcome and every score the block can be handed
RuleInputs ==
    [passed : BOOLEAN, greenScore : (0..100) \cup {NaN}, loan : ProbeLoans]

InitScore ==
    /\ StoreInit
    /\ ClaimIdle
    /\ clock = 0
    /\ sResult = None
    /\ sPrev = None
    /\ rOutput = None
    /\ \/ sInput \in ScoreInputs /\ rInput = None
       \/ sInput = None /\ rInput \in RuleInputs

\* scoreResult = calculateGreenScore(projectData)
Score ==
    /\ sInput # None
    /\ sResult' = calculateGreenScore(sInput, clock)
    /\ UNCHANGED <<sInput, sPrev, rInput, rOutput, clock>>
    /\ UNCHANGED storeVars
    /\ UNCHANGED claimVars

\* routes/verification.js, lines 60-85, on a score and a greenwashing outcome
decisionOutput(in) ==
    Bind(<<[greenScore |-> in.greenScore,
            sustainabilityClass |-> sustainabilityClassOf(in.greenScore)],
           Disposition(in.passed, in.greenScore)>>,
         LAMBDA d : [scoreResult |-> d[1], disp |-> d[2],
                     loan |-> ApplyVerdict(in.loan, d[1], d[2])])

Decide ==
    /\ rInput # None
    /\ rOutput = None
    /\ rOutput' = decisionOutput(rInput)
    /\ UNCHANGED <<sInput, sResult, sPrev, rInput, clock>>
    /\ UNCHANGED storeVars
    /\ UNCHANGED claimVars

\* time passes between two calls
Tick ==
    /\ clock < MaxClock
    /\ clock' = clock + 1
    /\ UNCHANGED scoreVars
    /\ UNCHANGED claimVars
    /\ UNCHANGED storeVars

NextScore ==
    \/ Score
    \/ Decide
    \/ Tick

SpecScore == InitScore /\ [][NextScore]_vars

(***************************************************************************)
(* The rule engine called again on the record it was called on             *)
(***************************************************************************)
RepeatInputs ==
    [greenObjective : ObjectiveSamples,
     annualTurnover : {Undefined, Str("9,99,999"), Str("not disclosed")},
     yearsInBusiness : {Undefined, Str("2.5 years"), Str("n/a")},
     estimatedSavings : {Num(0), Num(600000), Str("unknown")},
     loanAmount : {Undefined, Num(1200000), Str("TBD")},
     projectLocation : {Undefined, Str("Mumbai, Maharashtra"), Num(560001)},
     locationCoordinates : {Undefined, Coordinates(Num(2691), Num(7579))}]

InitRepeat ==
    /\ StoreInit
    /\ ClaimIdle
    /\ clock = 0
    /\ sInput \in RepeatInputs
    /\ sResult = None
    /\ sPrev = None
    /\ rInput = None
    /\ rOutput = None

\* a faulty scorer that writes its score into the record it was passed
ScoreAgainStoring ==
    /\ sInput # None
    /\ sResult # None
    /\ ~sResult.threw
    /\ sPrev' = sResult
    /\ sResult' = calculateGreenScore(sInput, clock)
    /\ sInput' = [sInput EXCEPT !.aiScore = Num(sResult.greenScore)]
    /\ localLoans' = [localLoans EXCEPT ![1] = sInput']
    /\ UNCHANGED <<rInput, rOutput, clock>>
    /\ UNCHANGED <<dbPhase, dbLoans, localVerifications, auditLogs, requests>>
    /\ UNCHANGED claimVars

\* a further call of calculateGreenScore with the same projectData
ScoreAgain ==
    /\ sInput # None
    /\ sResult # None
    /\ sPrev' = sResult
    /\ sResult' = calculateGreenScore(sInput, clock)
    /\ UNCHANGED <<sInput, rInput, rOutput, clock>>
    /\ UNCHANGED storeVars
    /\ UNCHANGED claimVars

\* the first call
ScoreFirst ==
    /\ sResult = None
    /\ Score

NextRepeat ==
    \/ ScoreFirst
    \/ ScoreAgain
    \/ Tick

SpecRepeat == InitRepeat /\ [][NextRepeat]_vars

(***************************************************************************)
(* End-to-end scenarios: a loan is scored, and the handler's scoring and   *)
(* decision steps are applied to the loan as POST /api/loans stores it     *)
(***************************************************************************)
ScenarioLoans ==
    [greenObjective : {Str("solar"), Str("agriculture"), Str("biogas plant"), Undefined},
     annualTurnover : {Num(10000000), Num(0)},
     yearsInBusiness : {Num(6), Undefined},
     estimatedSavings : {Num(3000000), Num(0)},
     loanAmount : {Num(1500000), Undefined},
     projectLocation : {Str("Rajasthan"), Str("Kerala"), Str("Atlantis"), Undefined},
     locationCoordinates : {Undefined}]

\* the loan POST /api/loans stores for a body with these fields
LoanOf(p) ==
    newLocalLoan(Body(p.greenObjective, p.annualTurnover, p.yearsInBusiness,
                      p.estimatedSavings, p.loanAmount, p.projectLocation,
                      p.locationCoordinates, Undefined), 0, 0)

\* routes/verification.js, lines 38-85: the scores, the verification result,
\* the rejection criteria and the update of the loan
orchestrate(loan, now) ==
    Bind(Verdict(loan, now),
         LAMBDA v : IF v.threw THEN [threw |-> TRUE, loan |-> loan]
                    ELSE [threw |-> FALSE,
                          verification |-> v.verification,
                          disp |-> v.disp,
                          loan |-> ApplyVerdict(loan, v.scoreResult, v.disp)])

InitScenario ==
    /\ StoreInit
    /\ ClaimIdle
    /\ clock = 0
    /\ sInput \in ScenarioLoans
    /\ sResult = None
    /\ sPrev = None
    /\ rInput = None
    /\ rOutput = None

Orchestrate ==
    /\ sInput # None
    /\ rOutput = None
    /\ rInput' = LoanOf(sInput)
    /\ rOutput' = orchestrate(LoanOf(sInput), clock)
    /\ UNCHANGED <<sInput, sResult, sPrev, clock>>
    /\ UNCHANGED storeVars
    /\ UNCHANGED claimVars

NextScenario ==
    \/ ScoreFirst
    \/ Orchestrate
    \/ Tick

SpecScenario == InitScenario /\ [][NextScenario]_vars

(***************************************************************************)
(* Claim extraction: POST /api/ai/extract-claim and the confidence score   *)
(***************************************************************************)
MaxCertifications == 3

CertificationNames ==
    <<"ISO 14001", "ISO 9001", "LEED", "GRIHA", "IGBC", "BIS Certified",
      "MNRE Approved", "BEE Star Rated">>

\* claims as the extractors return them, and claims whose fields hold a
\* value that is falsy without being null
ClaimInputs ==
    {Claim(type, capacity, vendor, certifications, impact) :
        type \in {Null, Str("solar"), Str("")},
        capacity \in {Null, Num(500), Num(0)},
        vendor \in {Null, Str("Tata Power Solar")},
        certifications \in {Undefined}
            \cup {Arr(SubSeq(CertificationNames, 1, n)) : n \in 0..MaxCertifications},
        impact \in {Undefined}
            \cup {ClaimedImpact(co2, energy) :
                    co2 \in {Null, Num(400), Num(0)}, energy \in {Null, Num(750000)}}}

ClaimTexts ==
    {Undefined, Num(42), Str("solar"), Str("   50 kW     "),
     Str("Installing a 50 kW rooftop solar plant by Tata Power Solar, ISO 14001, will save 40 tonnes of CO2"),
     Str("Replace lamps with LED lighting to reduce usage by 30,000 kWh/year, BEE star rated, Havells"),
     Str("Rainwater harvesting for irrigation across the campus"),
     Str("We want a loan to grow our shop"),
     Str("A 0 kW pilot: seven new looms"),
     Str("Capacity of 12.5 by Adani, LEED and GRIHA and IGBC, MNRE certified, generate 1,20,000 kWh"),
     Str("Waste composting unit, CO2 reduction of 15.5, annual output 9000 kWh of power, ISO 9001"),
     Str("EV Charging Station under a Solar canopy"),
     Str("Recycling of waste water for irrigation"),
     Str("HVAC upgrade at the sewage works"),
     Str("Electric Vehicle battery RECYCLING")}

\* String.prototype.trim
TrimOf(s) ==
    LET Inner == {i \in 1..Len(s) : CharAt(s, i) \notin WhiteSpace}
    IN  IF Inner = {} THEN "" ELSE SubSeq(s, SetMin(Inner), SetMax(Inner))

\* routes/profile.js, router.post('/extract-claim'), in mock mode
extractClaimResponse(text, now) ==
    IF ~Truthy(text) \/ ~IsStr(text)
    THEN [status |-> 400, error |-> "Invalid request"]
    ELSE IF Len(TrimOf(text.s)) < 10
    THEN [status |-> 400, error |-> "Text too short"]
    ELSE Bind(extractClaimMock(text.s), LAMBDA claim :
            Bind(calculateExtractionConfidence(claim), LAMBDA result :
                [status |-> 200,
                 success |-> TRUE,
                 extracted_claim |-> claim,
                 extraction_confidence |->
                    [confidence |-> result.confidence,
                     level |-> getConfidenceLevel(result.confidence),
                     signals |-> result.signals,
                     completeness |-> result.completeness],
                 mode |-> "mock",
                 original_text |-> text.s,
                 timestamp |-> now]))

InitClaim ==
    /\ StoreInit
    /\ ScoreIdle
    /\ clock = 0
    /\ gwResult = None
    /\ riskResult = None
    /\ confidenceResult = None
    /\ extractionResponse = None
    /\ \/ claimText \in ClaimTexts /\ extractedClaim = None
       \/ claimText = None /\ extractedClaim \in ClaimInputs

PostExtractClaim ==
    /\ claimText # None
    /\ extractionResponse = None
    /\ \E response \in {extractClaimResponse(claimText, clock)} :
          /\ extractionResponse' = response
          /\ extractedClaim' = IF response.status = 200 THEN response.extracted_claim
                               ELSE extractedClaim
    /\ UNCHANGED <<gwResult, riskResult, claimText, confidenceResult, clock>>
    /\ UNCHANGED scoreVars
    /\ UNCHANGED storeVars

\* confidenceResult = calculateExtractionConfidence(extractedClaim)
Confidence ==
    /\ extractedClaim # None
    /\ confidenceResult' = calculateExtractionConfidence(extractedClaim)
    /\ confidenceResult' # confidenceResult
    /\ UNCHANGED <<gwResult, riskResult, claimText, extractedClaim, extractionResponse,
                   clock>>
    /\ UNCHANGED scoreVars
    /\ UNCHANGED storeVars

NextClaim ==
    \/ PostExtractClaim
    \/ Confidence
    \/ Tick

SpecClaim == InitClaim /\ [][NextClaim]_vars

(***************************************************************************)
(* The scoring components called on a stored loan and on a text, in any    *)
(* order and any number of times                                           *)
(***************************************************************************)
PureTexts ==
    {Str("Tata Solar 50 kW, LEED, save 4 tons"),
     Str("We want a loan to grow our shop"),
     Str("A 0 kW pilot: seven new looms")}

\* one loan has been stored by POST /api/loans without a database; the
\* record passed to the components is that loan
InitPure ==
    /\ dbPhase = "failed"
    /\ dbLoans = <<>>
    /\ \E loanData \in LoanBodies : localLoans = <<newLocalLoan(loanData, 0, 0)>>
    /\ localVerifications = <<>>
    /\ auditLogs = <<>>
    /\ requests = [r \in Requests |-> IdleRequest]
    /\ clock = 0
    /\ sInput = localLoans[1]
    /\ sResult = None
    /\ sPrev = None
    /\ rInput = None
    /\ rOutput = None
    /\ gwResult = None
    /\ riskResult = None
    /\ claimText \in PureTexts
    /\ extractedClaim = None
    /\ confidenceResult = None
    /\ extractionResponse = None

\* gwResult = runGreenwashingCheck(sInput)
Greenwash ==
    /\ sInput # None
    /\ gwResult' = runGreenwashingCheck(sInput, clock)
    /\ gwResult' # gwResult
    /\ UNCHANGED <<riskResult, claimText, extractedClaim, confidenceResult,
                   extractionResponse, clock>>
    /\ UNCHANGED scoreVars
    /\ UNCHANGED storeVars

\* riskResult = assessClimateRisk({ city, state }) for the loan's location
AssessRisk ==
    /\ sInput # None
    /\ ~SplitThrows(sInput)
    /\ riskResult' = assessClimateRisk(orchestratorLocation(sInput), clock)
    /\ riskResult' # riskResult
    /\ UNCHANGED <<gwResult, claimText, extractedClaim, confidenceResult,
                   extractionResponse, clock>>
    /\ UNCHANGED scoreVars
    /\ UNCHANGED storeVars

\* extractedClaim = extractClaimMock(text)
Extract ==
    /\ claimText # None
    /\ IsStr(claimText)
    /\ extractedClaim' = extractClaimMock(claimText.s)
    /\ extractedClaim' # extractedClaim
    /\ UNCHANGED <<gwResult, riskResult, claimText, confidenceResult,
                   extractionResponse, clock>>
    /\ UNCHANGED scoreVars
    /\ UNCHANGED storeVars

NextPure ==
    \/ ScoreFirst
    \/ ScoreAgain
    \/ Greenwash
    \/ AssessRisk
    \/ Extract
    \/ Confidence
    \/ Tick

SpecPure == InitPure /\ [][NextPure]_vars

(***************************************************************************)
(* The rule engine on the boundary values of its tiers                     *)
(***************************************************************************)
TierInputs ==
    [greenObjective : ObjectiveSamples \cup {Str("biogas plant")},
     annualTurnover : {Num(0), Num(999999), Num(1000000), Num(4999999), Num(5000000)},
     yearsInBusiness : {Undefined, Str("0.9"), Num(1), Str("2.9"), Num(3)},
     estimatedSavings : {Num(0), Num(119999), Num(120000), Num(300000), Num(500000),
                         Num(600000)},
     loanAmount : {Undefined, Num(0), Num(1200000)},
     projectLocation : {Undefined},
     locationCoordinates : {Undefined}]

InitTiers ==
    /\ StoreInit
    /\ ClaimIdle
    /\ clock = 0
    /\ sInput \in TierInputs
    /\ sResult = None
    /\ sPrev = None
    /\ rInput = None
    /\ rOutput = None

NextTiers ==
    \/ ScoreFirst
    \/ Tick

SpecTiers == InitTiers /\ [][NextTiers]_vars

(***************************************************************************)
(* Loans with and without geocoordinates: scored, and taken through the    *)
(* handler's scoring and decision steps                                    *)
(***************************************************************************)
\* Jaipur; a point at equal distance from the centroids of Maharashtra and
\* Karnataka; London; Sydney; a point on the equator; a latitude alone; a
\* longitude alone
GeoCoordinateSamples ==
    {Undefined,
     Coordinates(Num(2691), Num(7579)),
     Coordinates(Num(1753), Num(7571)),
     Coordinates(Num(5150), Num(0 - 12)),
     Coordinates(Num(0 - 3300), Num(15100)),
     Coordinates(Num(0), Num(7571)),
     Coordinates(Num(1085), Undefined),
     Coordinates(Undefined, Num(7700))}

GeoInputs ==
    [greenObjective : {Str("solar"), Str("agriculture"), Str("ev"), Undefined},
     annualTurnover : {Num(0), Num(1000000)},
     yearsInBusiness : {Undefined},
     estimatedSavings : {Num(0), Num(600000)},
     loanAmount : {Num(1200000)},
     projectLocation : {Undefined, Str("Kerala"), Str("Pune, Maharashtra"),
                        Str("Mumbai"), Str("Ludhiana, Punjab"),
                        Str("Andheri, Mumbai, Maharashtra")},
     locationCoordinates : GeoCoordinateSamples]

InitGeo ==
    /\ StoreInit
    /\ ClaimIdle
    /\ clock = 0
    /\ sInput \in GeoInputs
    /\ sResult = None
    /\ sPrev = None
    /\ rInput = None
    /\ rOutput = None

SpecGeo == InitGeo /\ [][NextScenario]_vars

Next ==
    \/ ConnectOk
    \/ ConnectFail
    \/ Disconnected
    \/ \E b \in LoanBodies : PostLoanLocal(b)
    \/ \E b \in LoanBodies : PostLoanDb(b)
    \/ \E r \in Requests, id \in RequestIds : VerifyStart(r, id)
    \/ \E r \in Requests : FindResolved(r)
    \/ \E r \in Requests : FindRejected(r)
    \/ \E r \in Requests : SaveResolved(r)
    \/ \E r \in Requests : SaveRejected(r)

Spec == Init /\ [][Next]_vars

(***************************************************************************)
(* routes/loans.js: POST /api/loans without a database, request after      *)
(* request                                                                 *)
(***************************************************************************)
\* loans ever stored in memory
MaxDemoLoans == 3

\* a body with one more property
WithProperty(loanData, key, value) ==
    [k \in DOMAIN loanData \cup {key} |-> IF k = key THEN value ELSE loanData[k]]

\* bodies of the form, and bodies that also carry a loanId, a user, an _id or
\* a status of the client's choosing
DemoBodies ==
    {WeakBody,
     ResubmittedBody,
     WithProperty(WeakBody, "loanId", loanIdOf(0)),
     WithProperty(ResubmittedBody, "user", "user-2"),
     WithProperty(WeakBody, "_id", "local_loan_0"),
     WithProperty(ResubmittedBody, "status", "approved")}

InitDemo ==
    /\ dbPhase = "failed"
    /\ dbLoans = <<>>
    /\ localLoans = <<>>
    /\ localVerifications = <<>>
    /\ auditLogs = <<>>
    /\ requests = [r \in Requests |-> IdleRequest]
    /\ ScoreIdle
    /\ ClaimIdle
    /\ clock = 0

\* the In-Memory Logic of the handler
PostLoanInMemory(loanData) ==
    /\ ~isDbConnected
    /\ Len(localLoans) < MaxDemoLoans
    /\ localLoans' = Append(localLoans, newLocalLoan(loanData, Len(localLoans), clock))
    /\ UNCHANGED <<dbPhase, dbLoans, localVerifications, auditLogs, requests, clock>>
    /\ UNCHANGED scoreVars
    /\ UNCHANGED claimVars

NextDemo ==
    \/ \E b \in DemoBodies : PostLoanInMemory(b)
    \/ Tick

SpecDemo == InitDemo /\ [][NextDemo]_vars

(***************************************************************************)
(* routes/loans.js: PUT /api/loans/:id/status, beside the routes above     *)
(***************************************************************************)
\* statuses of the schema's enum that a lender sets once a loan is decided
LifecycleStatuses == {"active", "completed", "cancelled"}

\* status updates ever made
MaxStatusChanges == 1

\* the status updates recorded so far
StatusChanges ==
    Cardinality({k \in 1..Len(auditLogs) :
                    auditLogs[k].eventType \in {"loan_" \o st : st \in LifecycleStatuses}})

\* the loan is looked up in the database, its status is set from the body
\* (which carries neither aiScore nor sustainabilityClass) and saved, and the
\* change is recorded; an unknown id answers 404 and changes nothing
PutStatus(id, status) ==
    /\ isDbConnected
    /\ StatusChanges < MaxStatusChanges
    /\ dbFind(id) # 0
    /\ dbLoans' = [dbLoans EXCEPT ![dbFind(id)] = [@ EXCEPT !.status = status]]
    /\ auditLogs' = recordEvent(auditLogs,
                        [eventType |-> "loan_" \o status,
                         loanId |-> dbLoans[dbFind(id)].loanId,
                         description |-> "Loan status updated to: " \o status])
    /\ UNCHANGED <<dbPhase, localLoans, localVerifications, requests, clock>>
    /\ UNCHANGED scoreVars
    /\ UNCHANGED claimVars

NextStatus ==
    \/ Next
    \/ \E id \in RequestIds, status \in LifecycleStatuses : PutStatus(id, status)

SpecStatus == Init /\ [][NextStatus]_vars

(***************************************************************************)
(* Properties of the decision block                                        *)
(***************************************************************************)
Decided == rInput # None /\ rOutput # None

\* C1: whenever the greenwashing check fails, the decision is "rejected" with
\* the greenwashing reason and the loan is updated to rejected with that
\* reason, whatever the green score (the low-score reason is never used)
C1_GreenwashingFailureRejects ==
    (Decided /\ ~rInput.passed) =>
        /\ rOutput.disp.newStatus = "rejected"
        /\ rOutput.disp.rejectionReason = Str(GreenwashingReason)
        /\ rOutput.loan.status = "rejected"
        /\ rOutput.loan.rejectionReason = Str(GreenwashingReason)
        /\ rOutput.loan.rejectionReason # Str(LowScoreReason(rInput.greenScore))

\* a failed greenwashing check with a score of 95 has been decided
C1_Witness ==
    /\ Decided
    /\ ~rInput.passed
    /\ rInput.greenScore = 95
    /\ rOutput.loan.status = "rejected"

\* C2: when the greenwashing check passes, the loan is rejected exactly when
\* the green score is below 50; the reason then holds the score and the
\* threshold 50; otherwise the loan is approved and the request produces no
\* rejection reason
C2_ScoreThresholdDecides ==
    (Decided /\ rInput.passed) =>
        /\ rOutput.loan.status \in {"approved", "rejected"}
        /\ rOutput.loan.status = rOutput.disp.newStatus
        /\ (rOutput.loan.status = "rejected") <=>
               (~IsNaN(rInput.greenScore) /\ rInput.greenScore < 50)
        /\ (rOutput.loan.status = "rejected") =>
               /\ IsStr(rOutput.disp.rejectionReason)
               /\ Includes(rOutput.disp.rejectionReason.s,
                           "(" \o NatToString(rInput.greenScore) \o "/100)")
               /\ Includes(rOutput.disp.rejectionReason.s, "Minimum 50 required")
               /\ rOutput.loan.rejectionReason = rOutput.disp.rejectionReason
        /\ (rOutput.loan.status = "approved") =>
               rOutput.disp.rejectionReason = Null

\* a passed greenwashing check with a score of exactly 50 has been approved
C2_Witness ==
    /\ Decided
    /\ rInput.passed
    /\ rInput.greenScore = 50
    /\ rOutput.loan.status = "approved"

(***************************************************************************)
(* Properties of the verification handler                                  *)
(***************************************************************************)
Stores == <<dbLoans, localLoans, localVerifications, auditLogs>>

\* the step in which request r answers
Completes(r) == requests[r].pc # "done" /\ requests'[r].pc = "done"

\* the loan a finished request resolved, as the stores hold it
StoredLoan(q) == IF q.src = "db" THEN dbLoans[q.idx] ELSE localLoans[q.idx]

\* the same loan once the step of request r is taken
StoredLoanAfter(r) ==
    IF requests'[r].src = "db" THEN dbLoans'[requests'[r].idx]
    ELSE localLoans'[requests'[r].idx]

\* the lookup itself failed: findOne rejected
LookupFailed(q) == q.code = 500 /\ q.src = "none"

\* the identifier matches no loan of either store
NotResolvable(id) ==
    /\ \A k \in 1..Len(dbLoans) : dbLoans[k].loanId # id
    /\ \A k \in 1..Len(localLoans) : ~LocalMatch(localLoans[k], id)

Outcomes == {"approved", "rejected"}

\* the request's update reached the store that holds the loan: the loan is an
\* element of localLoans, or the document was saved
Written(r) == requests'[r].src = "local" \/ requests[r].pc = "saving"

\* C3 as stated: a request whose loan resolves always answers with success
\* and leaves the stored loan approved or rejected; it never answers
\* 'Verification failed' and never leaves the loan in its previous status
C3_AlwaysApprovedOrRejected ==
    [][\A r \in Requests :
          (Completes(r) /\ requests'[r].src # "none") =>
              /\ requests'[r].code = 200
              /\ StoredLoanAfter(r).status \in Outcomes]_vars

\* C3 as the handler behaves: a request whose loan resolves answers in one
\* of two ways.  With success: the disposition is approved or rejected, and
\* the store holds it when the update reached the store.  With 500
\* 'Verification failed', when the scoring threw or loan.save() was
\* rejected: then no store has changed.
C3_CompletesDecidedOrFailed ==
    [][\A r \in Requests :
          (Completes(r) /\ requests'[r].src # "none") =>
              \/ /\ requests'[r].code = 200
                 /\ requests'[r].verdict.disp.newStatus \in Outcomes
                 /\ Written(r) =>
                       StoredLoanAfter(r).status =
                           requests'[r].verdict.disp.newStatus
              \/ /\ requests'[r].code = 500
                 /\ \/ requests[r].pc = "saving"
                    \/ ScoreThrows(StoredLoanAfter(r))
                    \/ SplitThrows(StoredLoanAfter(r))
                 /\ UNCHANGED Stores]_vars

\* both ways have been taken: one request has failed with 500 on a loan it
\* resolved, another has rejected its loan
C3_Witness ==
    \E r, q \in Requests :
        /\ requests[r].pc = "done" /\ requests[r].src # "none" /\ requests[r].code = 500
        /\ requests[q].pc = "done" /\ requests[q].code = 200
        /\ StoredLoan(requests[q]).status = "rejected"

\* C4: a request whose identifier matches no loan of the database (when it
\* is asked) and no loan of the in-memory store answers 404 'Loan not found'
\* and changes nothing: no loan, no verification record, no audit entry
C4_UnknownLoanChangesNothing ==
    [][\A r \in Requests :
          (Completes(r) /\ ~LookupFailed(requests'[r])
           /\ NotResolvable(requests'[r].loanId)) =>
              /\ requests'[r].code = 404
              /\ requests'[r].verdict = None
              /\ UNCHANGED Stores]_vars

\* an unknown identifier has been answered with 404 while a loan is stored
C4_Witness ==
    \E r \in Requests :
        /\ requests[r].pc = "done"
        /\ requests[r].code = 404
        /\ requests[r].loanId = "TL-2026-999"
        /\ Len(dbLoans) + Len(localLoans) > 0

\* the verification_complete entries of a log for one loan identifier
CompletionEntries(logs, id) ==
    {k \in 1..Len(logs) :
        logs[k].eventType = "verification_complete" /\ logs[k].loanId = id}

\* the requests that answered with success for the loan identifier id
Succeeded(id) ==
    {r \in Requests :
        /\ requests[r].pc = "done"
        /\ requests[r].code = 200
        /\ requests[r].verdict.verification.loanId = id}

\* C5 as stated: when a request succeeds on a loan that an earlier request
\* already verified, the stored record and the stored loan's status, aiScore,
\* sustainabilityClass and rejectionReason are the ones this request
\* computed; a loan it approves carries no rejectionReason
C5_LastRequestWins ==
    [][\A r \in Requests :
          (/\ Completes(r)
           /\ requests'[r].code = 200
           /\ \E q \in Requests \ {r} :
                 /\ requests[q].pc = "done"
                 /\ requests[q].code = 200
                 /\ requests[q].src = requests'[r].src
                 /\ requests[q].idx = requests'[r].idx) =>
              LET v == requests'[r].verdict
                  loan == StoredLoanAfter(r)
              IN  /\ localVerifications'[loan.loanId] = v.verification
                  /\ loan.status = v.disp.newStatus
                  /\ loan.aiScore = Num(v.scoreResult.greenScore)
                  /\ loan.sustainabilityClass = Str(v.scoreResult.sustainabilityClass)
                  /\ loan.rejectionReason =
                        IF v.disp.newStatus = "rejected"
                        THEN v.disp.rejectionReason ELSE Undefined]_vars

\* C6 as stated: a request that answers with its decision appends exactly
\* one verification_complete entry carrying the loan identifier, with the
\* stored loan already holding the decided status and the record stored; no
\* other step appends such an entry
C6_OneAuditEntryAfterUpdate ==
    [][/\ \A r \in Requests :
             (Completes(r) /\ requests'[r].code = 200) =>
                 LET v == requests'[r].verdict
                     loan == StoredLoanAfter(r)
                 IN  /\ Len(auditLogs') = Len(auditLogs) + 1
                     /\ Tail(auditLogs') = auditLogs
                     /\ Head(auditLogs').eventType = "verification_complete"
                     /\ Head(auditLogs').loanId = loan.loanId
                     /\ loan.loanId \in DOMAIN localVerifications'
                     /\ localVerifications'[loan.loanId] = v.verification
                     /\ loan.status = v.disp.newStatus
       /\ (\A r \in Requests : ~(Completes(r) /\ requests'[r].code = 200)) =>
             \A id \in RequestIds :
                 Cardinality(CompletionEntries(auditLogs', id)) =
                     Cardinality(CompletionEntries(auditLogs, id))]_vars

\* C7 as stated: once two requests on the same loan have both answered with
\* success, the stored loan and the stored record stem from one request:
\* the record's greenScore is the loan's aiScore, the loan's status is the
\* disposition derived from the record, and the audit log holds one
\* verification_complete entry per request
C7_ConcurrentRequestsConsistent ==
    \A r, q \in Requests :
        (/\ r # q
         /\ requests[r].pc = "done" /\ requests[r].code = 200
         /\ requests[q].pc = "done" /\ requests[q].code = 200
         /\ requests[r].src = requests[q].src
         /\ requests[r].idx = requests[q].idx) =>
            LET loan == StoredLoan(requests[r])
                rec == localVerifications[loan.loanId]
            IN  /\ loan.aiScore = Num(rec.greenScore)
                /\ loan.status =
                      Disposition(rec.greenwashingCheck.passed, rec.greenScore).newStatus
                /\ Cardinality(CompletionEntries(auditLogs, loan.loanId)) =
                      Cardinality(Succeeded(loan.loanId))

RecordFields ==
    {"loanId", "completed", "greenScore", "sustainabilityClass", "reasoning",
     "greenwashingCheck", "climateRisk", "completedAt"}

\* C8 as stated: every stored record holds the three results and a
\* finalStatus, approved or rejected, with a rejectionReason exactly when
\* the finalStatus is rejected
C8_RecordHoldsFinalStatus ==
    \A id \in DOMAIN localVerifications :
        LET rec == localVerifications[id]
        IN  /\ {"greenScore", "greenwashingCheck", "climateRisk", "finalStatus"}
                   \subseteq DOMAIN rec
            /\ rec.finalStatus \in Outcomes
            /\ ("rejectionReason" \in DOMAIN rec) <=> (rec.finalStatus = "rejected")

\* C8 as the handler behaves: every stored record holds the green score with
\* its class and reasoning, the greenwashing result and the climate-risk
\* result, under the loan's identifier, and neither a finalStatus nor a
\* rejectionReason; the request that stored it computed a status, approved
\* or rejected, and a rejection reason exactly when rejected, outside the
\* record
C8_RecordHoldsResultsOnly ==
    \A id \in DOMAIN localVerifications :
        LET rec == localVerifications[id]
        IN  /\ DOMAIN rec = RecordFields
            /\ rec.loanId = id
            /\ rec.completed
            /\ rec.sustainabilityClass = sustainabilityClassOf(rec.greenScore)
            /\ Len(rec.reasoning) > 0
            /\ rec.greenwashingCheck.passed \in BOOLEAN
            /\ rec.climateRisk.level \in {"low", "medium", "high"}
            /\ \E r \in Requests :
                  /\ requests[r].pc = "done"
                  /\ requests[r].code = 200
                  /\ requests[r].verdict.verification = rec
                  /\ requests[r].verdict.disp.newStatus \in Outcomes
                  /\ Truthy(requests[r].verdict.disp.rejectionReason) <=>
                        (requests[r].verdict.disp.newStatus = "rejected")

\* a record has been stored by a request that rejected its loan
C8_Witness ==
    \E r \in Requests :
        /\ requests[r].pc = "done"
        /\ requests[r].code = 200
        /\ requests[r].verdict.disp.newStatus = "rejected"
        /\ requests[r].verdict.verification.loanId \in DOMAIN localVerifications
        /\ StoredLoan(requests[r]).status = "rejected"

(***************************************************************************)
(* Properties of the rule engine                                           *)
(***************************************************************************)
Scored == sInput # None /\ sResult # None /\ ~sResult.threw

\* C9 as stated: every result of calculateGreenScore carries a greenScore
\* that is an integer from 0 to 100
C9_ScoreWithinRange ==
    Scored => sResult.greenScore \in 0..100

\* C10 as stated: in every result the class is high exactly when the score
\* is at least 80, medium exactly when it is from 50 to 79, and low exactly
\* when it is at most 49
C10_ClassFollowsScore ==
    Scored =>
        LET score == sResult.greenScore
            class == sResult.sustainabilityClass
        IN  /\ (class = "high") <=> (~IsNaN(score) /\ score >= 80)
            /\ (class = "medium") <=> (~IsNaN(score) /\ score >= 50 /\ score <= 79)
            /\ (class = "low") <=> (~IsNaN(score) /\ score <= 49)

Repeated == sInput # None /\ sPrev # None /\ sResult # None

\* C11 as stated: two calls of calculateGreenScore with the same record
\* return results that are identical in every field
C11_RepeatedCallsIdentical ==
    Repeated => sResult = sPrev

\* C11 as the engine behaves: two calls with the same record either both
\* throw or return results with the same fields, identical in greenScore,
\* sustainabilityClass, reasoning and methodology; the timestamp is the time
\* of each call
C11_RepeatedCallsDifferInTimestampOnly ==
    Repeated =>
        /\ sResult.threw = sPrev.threw
        /\ ~sResult.threw =>
              /\ DOMAIN sResult = DOMAIN sPrev
              /\ \A f \in DOMAIN sResult \ {"timestamp"} : sResult[f] = sPrev[f]
              /\ sPrev.timestamp <= sResult.timestamp
              /\ sResult.timestamp <= clock

\* the record has been scored twice, at two different times
C11_Witness ==
    /\ Repeated
    /\ ~sResult.threw
    /\ sPrev.timestamp < sResult.timestamp
    /\ sResult.greenScore = sPrev.greenScore

ScoreFields ==
    {"greenObjective", "annualTurnover", "yearsInBusiness", "estimatedSavings",
     "projectLocation", "loanAmount", "locationCoordinates"}

\* the record with one field left out
Without(p, f) == [p EXCEPT ![f] = Undefined]

\* C12 as stated: leaving any one field out of a scored record never gives a
\* higher score than the record gets with the field supplied (shown on the
\* records whose score is a number)
C12_MissingFieldScoresLowest ==
    (Scored /\ ~IsNaN(sResult.greenScore)) =>
        \A f \in ScoreFields :
            \E m \in {calculateGreenScore(Without(sInput, f), clock)} :
                /\ ~m.threw
                /\ ~IsNaN(m.greenScore)
                /\ m.greenScore <= sResult.greenScore

\* the text fields are strings or missing
TextFieldsWellTyped(p) ==
    /\ IsUndefined(p.greenObjective) \/ IsStr(p.greenObjective)
    /\ IsUndefined(p.projectLocation) \/ IsStr(p.projectLocation)

Levels == {"low", "medium", "high"}

\* C13: for every record whose numeric fields are missing, numbers or text
\* that parses to no number (the text fields being strings or missing),
\* calculateGreenScore returns a complete result, and the handler's scoring
\* of the stored loan raises nothing: the greenwashing result and the
\* climate-risk result are complete and a disposition is reached, so the
\* request does not end in 500 'Verification failed'
C13_MalformedNumbersNeverRaise ==
    (sInput # None /\ TextFieldsWellTyped(sInput)) =>
        /\ sResult # None =>
              /\ ~sResult.threw
              /\ {"greenScore", "sustainabilityClass", "reasoning", "methodology"}
                     \subseteq DOMAIN sResult
              /\ sResult.sustainabilityClass \in Levels
              /\ Len(sResult.reasoning) > 0
        /\ \E v \in {Verdict(LoanOf(sInput), clock)} :
              /\ ~v.threw
              /\ v.verification.greenwashingCheck.passed \in BOOLEAN
              /\ v.verification.greenwashingCheck.confidenceScore \in 0..100
              /\ v.verification.climateRisk.level \in Levels
              /\ v.disp.newStatus \in Outcomes

\* a record whose numeric fields all hold text without a number has been scored
C13_Witness ==
    /\ sInput # None
    /\ sResult # None
    /\ ~sResult.threw
    /\ sInput.annualTurnover = Str("not disclosed")
    /\ sInput.yearsInBusiness = Str("n/a")
    /\ sInput.estimatedSavings = Str("unknown")
    /\ sInput.loanAmount = Str("TBD")
    /\ IsUndefined(sInput.projectLocation)

(***************************************************************************)
(* Extraction confidence                                                   *)
(***************************************************************************)
\* a field that is absent: null or undefined
Absent(v) == v.t \in {"null", "undefined"}

ImpactMetric(extracted, name) ==
    IF extracted.claimed_impact.t = "object" THEN extracted.claimed_impact[name]
    ELSE Undefined

BothMetricsAbsent(extracted) ==
    /\ Absent(ImpactMetric(extracted, "co2_saved_tonnes_per_year"))
    /\ Absent(ImpactMetric(extracted, "energy_generated_kwh_per_year"))

CertificationsOf(extracted) ==
    IF extracted.certifications.t = "array" THEN extracted.certifications.items ELSE <<>>

\* every critical field is either absent or holds a value that counts
PresentOrAbsent(extracted) ==
    \A f \in {"project_type", "capacity_kw", "vendor"} :
        Absent(extracted[f]) \/ Truthy(extracted[f])

\* the confidence the penalties and the bonus add up to, in hundredths
ExpectedConfidence(extracted) ==
    Max(0, Min(100,
        100 - (IF Absent(extracted.project_type) THEN 20 ELSE 0)
            - (IF Absent(extracted.capacity_kw) THEN 25 ELSE 0)
            - (IF Absent(extracted.vendor) THEN 20 ELSE 0)
            - (IF BothMetricsAbsent(extracted) THEN 15 ELSE 0)
            + Min(10, 5 * Len(CertificationsOf(extracted)))))

Confided == extractedClaim # None /\ confidenceResult # None

\* C14: for every claim whose critical fields are present or absent and that
\* carries 0..MaxCertifications certifications, the confidence returned is
\* 1.00 - 0.20 [project type missing] - 0.25 [capacity missing]
\* - 0.20 [vendor missing] - 0.15 [both impact metrics missing]
\* + min(0.10, 0.05 * certifications), clamped to [0, 1], in hundredths
C14_ConfidenceFormula ==
    (Confided /\ PresentOrAbsent(extractedClaim)) =>
        confidenceResult.confidence = ExpectedConfidence(extractedClaim)

\* a claim without project type and impact metrics, with three
\* certifications: 1.00 - 0.20 - 0.15 + 0.10
C14_Witness ==
    /\ Confided
    /\ PresentOrAbsent(extractedClaim)
    /\ Absent(extractedClaim.project_type)
    /\ Truthy(extractedClaim.capacity_kw)
    /\ BothMetricsAbsent(extractedClaim)
    /\ Len(CertificationsOf(extractedClaim)) = 3
    /\ confidenceResult.confidence = 75

\* the claim without the critical field f
WithoutField(extracted, f) == [extracted EXCEPT ![f] = Null]

\* the claim without the impact metric name
WithoutMetric(extracted, name) ==
    [extracted EXCEPT !.claimed_impact =
        IF @.t = "object" THEN [@ EXCEPT ![name] = Null] ELSE @]

\* the claim with one more certification
WithCertification(extracted) ==
    [extracted EXCEPT !.certifications =
        Arr(Append(CertificationsOf(extracted),
                   CertificationNames[Len(CertificationsOf(extracted)) + 1]))]

ConfidenceOf(extracted) == calculateExtractionConfidence(extracted).confidence

\* C15: removing one more critical field (project type, capacity, vendor, or
\* an impact metric, the last remaining one included) never raises the
\* confidence; one more certification never lowers it; the certification
\* bonus is at most 0.10; the confidence lies in [0, 1]
C15_ConfidenceMonotone ==
    Confided =>
        /\ \A f \in {"project_type", "capacity_kw", "vendor"} :
              ConfidenceOf(WithoutField(extractedClaim, f)) <= confidenceResult.confidence
        /\ \A name \in {"co2_saved_tonnes_per_year", "energy_generated_kwh_per_year"} :
              ConfidenceOf(WithoutMetric(extractedClaim, name))
                  <= confidenceResult.confidence
        /\ ConfidenceOf(WithCertification(extractedClaim)) >= confidenceResult.confidence
        /\ certificationBonus(extractedClaim) <= 100
        /\ certificationBonus(WithCertification(extractedClaim)) <= 100
        /\ confidenceResult.confidence \in 0..100

\* a claim with one impact metric left and one certification, for which
\* losing the metric costs 0.15 and a further certification adds 0.05
C15_Witness ==
    /\ Confided
    /\ Absent(extractedClaim.vendor)
    /\ ~BothMetricsAbsent(extractedClaim)
    /\ Absent(ImpactMetric(extractedClaim, "co2_saved_tonnes_per_year"))
    /\ Len(CertificationsOf(extractedClaim)) = 1
    /\ ConfidenceOf(WithoutMetric(extractedClaim, "energy_generated_kwh_per_year"))
           = confidenceResult.confidence - 15
    /\ ConfidenceOf(WithCertification(extractedClaim)) = confidenceResult.confidence + 5

(***************************************************************************)
(* End-to-end scenarios                                                    *)
(***************************************************************************)
\* the points the reasoning of a result gives under a key, 0 without it
PointsOf(result, key) ==
    IF \E k \in 1..Len(result.reasoning) : result.reasoning[k].key = key
    THEN result.reasoning[CHOOSE k \in 1..Len(result.reasoning) :
                              result.reasoning[k].key = key].pts
    ELSE 0

SolarInRajasthan ==
    [greenObjective |-> Str("solar"), annualTurnover |-> Num(10000000),
     yearsInBusiness |-> Num(6), estimatedSavings |-> Num(3000000),
     loanAmount |-> Num(1500000), projectLocation |-> Str("Rajasthan"),
     locationCoordinates |-> Undefined]

\* C16 as stated: the solar loan in Rajasthan gets a category sub-score of
\* 30 and a geographic sub-score of 30 (full suitability plus low climate
\* risk), a score of at least 80 in class high, and is approved
C16_SolarRajasthanGeographyThirty ==
    (sInput = SolarInRajasthan /\ sResult # None /\ rOutput # None) =>
        /\ impactScore(locals(sInput)) = 30
        /\ geoScore(locals(sInput)) = 30
        /\ PointsOf(sResult, "climate_resilience") = 10
        /\ sResult.greenScore >= 80
        /\ sResult.sustainabilityClass = "high"
        /\ rOutput.loan.status = "approved"

\* C16, amended: the solar loan in Rajasthan gets a category sub-score of 30
\* (without the transformative bonus: the savings are below half the
\* turnover), a financial sub-score of 30, a geographic sub-score of 25 (20
\* for the high-irradiance zone and 5 for a moderate climate risk, Rajasthan
\* being drought-prone) and 5 for data integrity: a greenScore of 90 in class
\* high; the orchestrator records a medium climate risk and approves the loan
C16_SolarRajasthanScoresNinety ==
    /\ (sInput = SolarInRajasthan /\ sResult # None) =>
          /\ ~sResult.threw
          /\ impactScore(locals(sInput)) = 30
          /\ PointsOf(sResult, "transformative_bonus") = 0
          /\ financialScore(locals(sInput)) = 30
          /\ geoScore(locals(sInput)) = 25
          /\ PointsOf(sResult, "geo_suitability") = 20
          /\ PointsOf(sResult, "climate_resilience") = 5
          /\ dataScore(locals(sInput)) = 5
          /\ sResult.greenScore = 90
          /\ sResult.sustainabilityClass = "high"
    /\ (sInput = SolarInRajasthan /\ rOutput # None) =>
          /\ ~rOutput.threw
          /\ rOutput.verification.greenwashingCheck.passed
          /\ rOutput.verification.climateRisk.level = "medium"
          /\ rOutput.disp.newStatus = "approved"
          /\ rOutput.loan.status = "approved"
          /\ rOutput.loan.aiScore = Num(90)

C16_Witness ==
    /\ sInput = SolarInRajasthan
    /\ sResult # None
    /\ rOutput # None
    /\ sResult.greenScore = 90
    /\ rOutput.loan.status = "approved"

\* an unrecognized objective, no turnover, no savings, an unknown location
IsWeakestScenario(p) ==
    /\ p.greenObjective = Str("biogas plant")
    /\ p.annualTurnover = Num(0)
    /\ p.estimatedSavings = Num(0)
    /\ IsUndefined(p.yearsInBusiness)
    /\ p.projectLocation \in {Str("Atlantis"), Undefined}
    /\ IsUndefined(p.locationCoordinates)

\* C17 as stated: that loan gets 20 + 0 + 10 + 0 = 30, the lowest score any
\* loan gets, is classified low and is rejected for its score although the
\* greenwashing check passes
C17_WeakestLoanScoresThirty ==
    (IsWeakestScenario(sInput) /\ sResult # None /\ rOutput # None) =>
        /\ impactScore(locals(sInput)) = 20
        /\ financialScore(locals(sInput)) = 0
        /\ geoScore(locals(sInput)) = 10
        /\ dataScore(locals(sInput)) = 0
        /\ sResult.greenScore = 30
        /\ \A p \in ScenarioLoans :
              calculateGreenScore(p, clock).greenScore >= sResult.greenScore
        /\ sResult.sustainabilityClass = "low"
        /\ rOutput.verification.greenwashingCheck.passed
        /\ rOutput.loan.status = "rejected"
        /\ rOutput.loan.rejectionReason = Str(LowScoreReason(30))

\* C17, amended: that loan gets 20 for the category, 0 for the finances, 20
\* for the geography (10 for general applicability and 10 for a low climate
\* risk, which is what an unknown location is given) and 0 for data
\* integrity: a greenScore of 40, which is not the lowest (the same loan
\* located in flood-prone Kerala gets 30); it is classified low and rejected
\* with the score-based reason although the greenwashing check passes
C17_WeakestLoanScoresForty ==
    /\ (IsWeakestScenario(sInput) /\ sResult # None) =>
          /\ ~sResult.threw
          /\ impactScore(locals(sInput)) = 20
          /\ financialScore(locals(sInput)) = 0
          /\ geoScore(locals(sInput)) = 20
          /\ PointsOf(sResult, "geo_suitability") = 10
          /\ PointsOf(sResult, "climate_resilience") = 10
          /\ dataScore(locals(sInput)) = 0
          /\ sResult.greenScore = 40
          /\ sResult.sustainabilityClass = "low"
          /\ calculateGreenScore([sInput EXCEPT !.projectLocation = Str("Kerala")],
                                 clock).greenScore = 30
    /\ (IsWeakestScenario(sInput) /\ rOutput # None) =>
          /\ ~rOutput.threw
          /\ rOutput.verification.greenwashingCheck.passed
          /\ rOutput.disp.newStatus = "rejected"
          /\ rOutput.loan.status = "rejected"
          /\ rOutput.loan.rejectionReason = Str(LowScoreReason(40))

C17_Witness ==
    /\ IsWeakestScenario(sInput)
    /\ sResult # None
    /\ rOutput # None
    /\ sResult.greenScore = 40
    /\ rOutput.loan.status = "rejected"

(***************************************************************************)
(* The scoring components are free of side effects                         *)
(***************************************************************************)
\* C18: a call of calculateGreenScore, runGreenwashingCheck,
\* assessClimateRisk, extractClaimMock or calculateExtractionConfidence
\* leaves the record passed to it, the loan store, the verification store
\* and the audit log as they were, and what it returns is determined by its
\* argument (and the time of the call, for the results that carry a time
\* stamp), whatever calls were made before it
C18_ComponentsLeaveStateUnchanged ==
    [][/\ sInput' = sInput
       /\ claimText' = claimText
       /\ extractedClaim # None => extractedClaim' = extractedClaim
       /\ UNCHANGED <<dbLoans, localLoans, localVerifications, auditLogs>>
       /\ localLoans[1] = sInput
       /\ sResult' # sResult => sResult' = calculateGreenScore(localLoans[1], clock)
       /\ gwResult' # gwResult => gwResult' = runGreenwashingCheck(localLoans[1], clock)
       /\ riskResult' # riskResult =>
             riskResult' = assessClimateRisk(orchestratorLocation(localLoans[1]), clock)
       /\ extractedClaim' # extractedClaim =>
             extractedClaim' = extractClaimMock(claimText.s)
       /\ confidenceResult' # confidenceResult =>
             confidenceResult' = calculateExtractionConfidence(extractedClaim)]_vars

\* every component has been called, the scorer twice, and the stored loan
\* is still pending verification
C18_Witness ==
    /\ sPrev # None
    /\ sResult # None
    /\ gwResult # None
    /\ riskResult # None
    /\ extractedClaim # None
    /\ confidenceResult # None
    /\ Len(localLoans) = 1
    /\ localLoans[1] = sInput
    /\ localLoans[1].status = "pending_verification"
    /\ IsUndefined(localLoans[1].aiScore)
    /\ auditLogs = <<>>

(***************************************************************************)
(* The tiers of the rule engine                                            *)
(***************************************************************************)
\* the numbers of the record under evaluation, as the claims state them
TurnoverOf(p) == IF IsNum(p.annualTurnover) THEN p.annualTurnover.n ELSE 0
SavingsOf(p) == IF IsNum(p.estimatedSavings) THEN p.estimatedSavings.n ELSE 0

\* base points: 30, 25, 20, and 20 outside the table
StatedBase(p) ==
    LET key == SpacesToUnderscores(ToLowerCase(StrOr(p.greenObjective, "")))
    IN  IF key \in {"solar", "waste", "wind"} THEN 30
        ELSE IF key \in {"energy_efficiency", "ev", "water"} THEN 25
        ELSE 20

InheritedKey(p) ==
    SpacesToUnderscores(ToLowerCase(StrOr(p.greenObjective, ""))) \in ObjectPrototypeKeys

\* the category sub-score of the result: its two reasoning entries, capped
CategoryPoints(result) ==
    MathMin(30, JsAdd(PointsOf(result, "category_impact"),
                      PointsOf(result, "transformative_bonus")))

\* C19 as stated: the category sub-score is min(30, base + bonus), with the
\* bonus of 5 exactly when estimatedSavings > 0.5 * annualTurnover, zero
\* turnover included
C19_BonusWheneverSavingsExceedHalf ==
    Scored =>
        /\ impactScore(locals(sInput))
              = Min(30, StatedBase(sInput)
                        + (IF 2 * SavingsOf(sInput) > TurnoverOf(sInput) THEN 5 ELSE 0))
        /\ CategoryPoints(sResult) = impactScore(locals(sInput))

\* C19, amended: the category sub-score is min(30, base + bonus), where base
\* is 30 for solar, waste and wind, 25 for energy_efficiency, ev and water,
\* 20 for agriculture and for a missing or unrecognized category, and the
\* bonus is 5 exactly when annualTurnover > 0 and estimatedSavings >
\* 0.5 * annualTurnover: without a turnover there is no bonus. For a
\* category that names a property inherited from Object.prototype the base,
\* and with it the sub-score, is not a number.
C19_BonusNeedsTurnover ==
    Scored =>
        /\ CategoryPoints(sResult) = impactScore(locals(sInput))
        /\ PointsOf(sResult, "transformative_bonus")
              = (IF TurnoverOf(sInput) > 0 /\ 2 * SavingsOf(sInput) > TurnoverOf(sInput)
                 THEN 5 ELSE 0)
        /\ ~InheritedKey(sInput) =>
              /\ PointsOf(sResult, "category_impact") = StatedBase(sInput)
              /\ impactScore(locals(sInput))
                    = Min(30, StatedBase(sInput)
                              + PointsOf(sResult, "transformative_bonus"))
        /\ InheritedKey(sInput) => IsNaN(impactScore(locals(sInput)))

\* an ev loan with savings and without a turnover: 25 and no bonus
C19_Witness ==
    /\ Scored
    /\ sInput.greenObjective = Str("ev")
    /\ sInput.annualTurnover = Num(0)
    /\ sInput.estimatedSavings = Num(600000)
    /\ impactScore(locals(sInput)) = 25
    /\ PointsOf(sResult, "transformative_bonus") = 0

AmountOf(p) == IF IsNum(p.loanAmount) THEN p.loanAmount.n ELSE 0

\* roi as stated: the tier of savings / loanAmount, the lowest tier for a
\* loanAmount that is 0 or missing
StatedRoi(p) ==
    IF AmountOf(p) = 0 THEN 0
    ELSE IF 2 * SavingsOf(p) >= AmountOf(p) THEN 15
    ELSE IF 4 * SavingsOf(p) >= AmountOf(p) THEN 10
    ELSE IF 10 * SavingsOf(p) >= AmountOf(p) THEN 5
    ELSE 0

StatedTurnover(p) ==
    IF TurnoverOf(p) >= 5000000 THEN 10 ELSE IF TurnoverOf(p) >= 1000000 THEN 5 ELSE 0

\* yearsInBusiness in tenths of a year
StatedAge(p) ==
    IF parseNum(p.yearsInBusiness) >= 30 THEN 5
    ELSE IF parseNum(p.yearsInBusiness) >= 10 THEN 2
    ELSE 0

\* the financial sub-score of the result: its reasoning entries, capped
FinancialPoints(result) ==
    Min(30, PointsOf(result, "roi_potential") + PointsOf(result, "turnover_stability")
            + PointsOf(result, "business_age"))

\* C20: the financial sub-score is min(30, roi + turnover + age), with roi
\* 15, 10, 5 or 0 for savings / loanAmount >= 0.5, >= 0.25, >= 0.1 or less,
\* turnover 10, 5 or 0 for annualTurnover >= 5000000, >= 1000000 or less,
\* age 5, 2 or 0 for yearsInBusiness >= 3, >= 1 or less, each boundary in
\* the higher tier, and roi 0 for a loanAmount that is 0 or missing
C20_FinancialTiers ==
    Scored =>
        /\ FinancialPoints(sResult) = financialScore(locals(sInput))
        /\ PointsOf(sResult, "turnover_stability") = StatedTurnover(sInput)
        /\ PointsOf(sResult, "business_age") = StatedAge(sInput)
        /\ PointsOf(sResult, "roi_potential") = StatedRoi(sInput)
        /\ financialScore(locals(sInput))
              = Min(30, StatedRoi(sInput) + StatedTurnover(sInput) + StatedAge(sInput))

(***************************************************************************)
(* The state a loan is scored for                                          *)
(***************************************************************************)
\* both coordinates are there, whatever their values
CoordinatesSupplied(p) ==
    /\ p.locationCoordinates.t = "object"
    /\ IsNum(p.locationCoordinates.latitude)
    /\ IsNum(p.locationCoordinates.longitude)

\* C21: with geocoordinates the state used for the geographic scoring is the
\* entry of the centroid table nearest to them (the earliest entry on a
\* tie), however far away they are, and not the free-text projectLocation;
\* without geocoordinates it is the free-text projectLocation
C21_StateFromNearestCentroid ==
    Scored =>
        locals(sInput).state =
            IF CoordinatesSupplied(sInput)
            THEN ToLowerCase(stateCentroids[
                    NearestIndex(sInput.locationCoordinates.latitude.n,
                                 sInput.locationCoordinates.longitude.n)].state)
            ELSE ToLowerCase(StrOr(sInput.projectLocation, "Unknown"))

(***************************************************************************)
(* The data-integrity sub-score                                            *)
(***************************************************************************)
\* the two data-integrity entries of the result
DataPoints(result) ==
    PointsOf(result, "data_quality") + PointsOf(result, "data_completeness")

\* C22: the data-integrity sub-score is 5 when geocoordinates are supplied
\* (latitude and longitude both present, the condition under which the state
\* is derived from them) plus 5 when turnover and savings are both above
\* zero, and never exceeds 10
C22_DataIntegrityPoints ==
    Scored =>
        /\ DataPoints(sResult) =
               (IF CoordinatesSupplied(sInput) THEN 5 ELSE 0)
               + (IF TurnoverOf(sInput) > 0 /\ SavingsOf(sInput) > 0 THEN 5 ELSE 0)
        /\ DataPoints(sResult) <= 10
        /\ (PointsOf(sResult, "data_quality") = 5) = stateFromCoordinates(sInput)

(***************************************************************************)
(* The climate-risk assessment of the verification record                  *)
(***************************************************************************)
Assessed == rInput # None /\ rOutput # None /\ ~rOutput.threw

\* a region of the list is named in the city or in the state
RegionNamed(regions, location) ==
    \/ SomeIncluded(regions, ToLowerCase(location.city))
    \/ SomeIncluded(regions, ToLowerCase(location.state))

StatedRisks(location) ==
    (IF RegionNamed(DroughtRegions, location)
        THEN <<[type |-> "drought", level |-> "medium"]>> ELSE <<>>)
    \o (IF RegionNamed(FloodRegions, location)
        THEN <<[type |-> "flood", level |-> "high"]>> ELSE <<>>)
    \o (IF RegionNamed(HeatRegions, location)
        THEN <<[type |-> "heatwave", level |-> "medium"]>> ELSE <<>>)

StatedLevel(risks) ==
    IF \E k \in 1..Len(risks) : risks[k].type = "flood" THEN "high"
    ELSE IF risks # <<>> THEN "medium"
    ELSE "low"

\* C23: the assessment holds one entry per category, in the order drought,
\* flood, heatwave, for exactly the categories of which a region is named in
\* the city or in the state of the location; its level is high with a high
\* entry, medium with any other entry, low with none
C23_RisksOfCityOrState ==
    Assessed =>
        /\ rOutput.verification.climateRisk.risks
               = StatedRisks(orchestratorLocation(rInput))
        /\ rOutput.verification.climateRisk.level
               = StatedLevel(rOutput.verification.climateRisk.risks)

(***************************************************************************)
(* The greenwashing check of the verification record                       *)
(***************************************************************************)
AllVerified(checks) == \A k \in 1..Len(checks) : checks[k].status = "verified"

\* score is the mean of the confidences, rounded to the nearest integer
\* (halves upwards)
IsRoundedMean(score, checks) ==
    LET n == Len(checks)
        sum == SumConfidence(checks, n)
    IN  /\ 2 * n * score <= 2 * sum + n
        /\ 2 * sum + n < 2 * n * (score + 1)

MeanAtLeast(checks, floor) ==
    SumConfidence(checks, Len(checks)) >= floor * Len(checks)

\* C24: the greenwashing check passes exactly when every check of its table
\* is verified and the mean confidence is at least 80; its confidence score
\* is the rounded mean; the loan plays no part, and with the table of the
\* code every loan passes with a score of 91
C24_GreenwashingCheckPasses ==
    Assessed =>
        LET check == rOutput.verification.greenwashingCheck
        IN  /\ check.passed = (AllVerified(check.checks) /\ MeanAtLeast(check.checks, 80))
            /\ IsRoundedMean(check.confidenceScore, check.checks)
            /\ check.passed
            /\ check.confidenceScore = 91
            /\ check.checks = greenwashingChecks

\* a loan without an objective, rejected for its score, has passed the check
C24_Witness ==
    /\ Assessed
    /\ rInput.greenObjective = Undefined
    /\ rOutput.loan.status = "rejected"
    /\ rOutput.verification.greenwashingCheck.passed

(***************************************************************************)
(* The project type of an extracted claim                                  *)
(***************************************************************************)
TypeKeywords ==
    << [type |-> "solar", keywords |-> {"solar", "photovoltaic", "pv panel"}],
       [type |-> "ev", keywords |-> {"ev", "electric vehicle", "charging station"}],
       [type |-> "waste", keywords |-> {"waste", "recycling", "composting"}],
       [type |-> "energy_efficiency",
        keywords |-> {"energy efficiency", "led", "insulation", "hvac", "vrf",
                      "variable refrigerant", "lighting system"}],
       [type |-> "water", keywords |-> {"water", "rainwater", "sewage", "irrigation"}] >>

\* the keyword sets of which a keyword is contained in the lower-cased text
MatchingTypes(text) ==
    LET lower == ToLowerCase(text)
    IN  {k \in 1..Len(TypeKeywords) :
            \E keyword \in TypeKeywords[k].keywords : Includes(lower, keyword)}

StatedType(text) ==
    LET matching == MatchingTypes(text)
    IN  IF matching = {} THEN Null ELSE Str(TypeKeywords[SetMin(matching)].type)

Extracted == extractionResponse # None /\ extractionResponse.status = 200

\* C25: the project type of the extracted claim is that of the first keyword
\* set, in the order solar, ev, waste, energy_efficiency, water, of which a
\* keyword is contained in the lower-cased text, and null when there is none
C25_ProjectTypeByPriority ==
    Extracted =>
        extractionResponse.extracted_claim.project_type = StatedType(claimText.s)

\* a text naming vehicles first and solar later is a solar claim
C25_Witness ==
    /\ Extracted
    /\ {1, 2} \subseteq MatchingTypes(claimText.s)
    /\ extractionResponse.extracted_claim.project_type = Str("solar")

(***************************************************************************)
(* The statuses a verification request moves a loan between                *)
(***************************************************************************)
VerificationStatuses == {"pending_verification", "approved", "rejected"}

\* the statuses of the loans of both stores, by store and position
StatusOf(db, local) ==
    [k \in 1..Len(db) |-> db[k].status] \o [k \in 1..Len(local) |-> local[k].status]

\* a step of a verification request; every such step moves the request on
VerificationStep == requests' # requests

\* C26: a verification request changes the status of a loan only when that
\* status is pending_verification, approved or rejected; a loan that is
\* active, completed or cancelled keeps its status
C26_VerificationKeepsOtherStatuses ==
    [][VerificationStep =>
        \A k \in 1..(Len(dbLoans) + Len(localLoans)) :
            StatusOf(dbLoans, localLoans)[k] \notin VerificationStatuses
                => StatusOf(dbLoans', localLoans')[k] = StatusOf(dbLoans, localLoans)[k]]_vars

(***************************************************************************)
(* The climate risk of the record and the climate risk that was scored     *)
(***************************************************************************)
\* the level behind the climate_resilience entry of a result
ScoredLevel(reasoning) ==
    LET points == PointsOf([reasoning |-> reasoning], "climate_resilience")
    IN  IF points = 10 THEN "low" ELSE IF points = 5 THEN "medium" ELSE "high"

\* C27: for a loan without geocoordinates the climate-risk level of the
\* verification record is the level the green score counted its resilience
\* points for
C27_RecordLevelIsScoredLevel ==
    (Assessed /\ ~CoordinatesSupplied(rInput)) =>
        rOutput.verification.climateRisk.level
            = ScoredLevel(rOutput.verification.reasoning)

(***************************************************************************)
(* The points of the reasoning and the score                               *)
(***************************************************************************)
RECURSIVE SumPoints(_, _)
SumPoints(reasoning, k) ==
    IF k = 0 THEN 0 ELSE JsAdd(SumPoints(reasoning, k - 1), reasoning[k].pts)

\* C28: the points named in the reasoning entries of a result add up to its
\* greenScore
C28_ReasoningAddsUpToScore ==
    Scored => SumPoints(sResult.reasoning, Len(sResult.reasoning)) = sResult.greenScore

(***************************************************************************)
(* The loans stored without a database                                     *)
(***************************************************************************)
\* C29: without a database, whatever bodies were posted, every stored loan
\* has the loanId the server generated for it, different from that of every
\* other stored loan, is owned by the requester, has the status
\* pending_verification, and is the loan a verification request finds under
\* its loanId
C29_StoredLoansServerIdentified ==
    \A k \in 1..Len(localLoans) :
        /\ localLoans[k].loanId = loanIdOf(k - 1)
        /\ \A j \in 1..Len(localLoans) : j # k => localLoans[j].loanId # localLoans[k].loanId
        /\ localLoans[k].user = RequesterId
        /\ localLoans[k].status = "pending_verification"
        /\ localFind(localLoans[k].loanId) = k

(***************************************************************************)
(* What the store holds when a verification request answers with success   *)
(***************************************************************************)
\* C30: when a verification request answers with success, the store holds
\* for its loan the status, the aiScore and the sustainabilityClass that the
\* request computed, also when the connection state changed between the
\* lookup and the write
C30_SuccessMeansStored ==
    [][\A r \in Requests :
          (Completes(r) /\ requests'[r].code = 200) =>
              LET v == requests'[r].verdict
                  loan == StoredLoanAfter(r)
              IN  /\ loan.status = v.disp.newStatus
                  /\ loan.aiScore = Num(v.scoreResult.greenScore)
                  /\ loan.sustainabilityClass
                         = Str(v.scoreResult.sustainabilityClass)]_vars

====
